---------------------------- MODULE Spec2Model ----------------------------
(***************************************************************************)
(* Model of the query-audit pipeline of the Agent Audit System backend:    *)
(*   backend/main.py                      process_agent and the request    *)
(*                                        model in front of it             *)
(*   backend/services/agent_service.py    process_worker_query,            *)
(*                                        audit_response                   *)
(*   backend/services/database_service.py create_audit_log,                *)
(*                                        get_recent_logs                  *)
(*   backend/utils/risk_calculator.py     calculate_risk_status            *)
(*                                                                         *)
(* A Python str is a sequence of one-character strings, so that strip(),   *)
(* lower() and the `in` substring test are computed, not assumed.          *)
(***************************************************************************)
EXTENDS Integers, Sequences, FiniteSets, TLC

\* ------------------------------------------------------------------------
\* Strings
\* ------------------------------------------------------------------------

\* str.strip() removes these characters (the whitespace of the inputs used)
Whitespace ==
  {" ", "\t", "\n"}

UpperCase ==
  <<"A","B","C","D","E","F","G","H","I","J","K","L","M",
    "N","O","P","Q","R","S","T","U","V","W","X","Y","Z">>

LowerCase ==
  <<"a","b","c","d","e","f","g","h","i","j","k","l","m",
    "n","o","p","q","r","s","t","u","v","w","x","y","z">>

LowerChar(c) ==
  IF \E i \in 1..26 : UpperCase[i] = c
    THEN LowerCase[CHOOSE i \in 1..26 : UpperCase[i] = c]
    ELSE c

\* str.lower()
Lower(s) ==
  [i \in 1..Len(s) |-> LowerChar(s[i])]

\* `not s or not s.strip()` for a str s
IsBlank(s) ==
  Len(s) = 0 \/ \A i \in 1..Len(s) : s[i] \in Whitespace

\* `k in s` for two strs
Contains(k, s) ==
  \E i \in 1..(Len(s) - Len(k) + 1) : SubSeq(s, i, i + Len(k) - 1) = k

\* ------------------------------------------------------------------------
\* utils/risk_calculator.py
\* ------------------------------------------------------------------------

\* A Python value handed in as risk_score is [type, n, frac]: its type and,
\* for a number, the value n + frac/10 with frac in 0..9 (True is 1).
\* a score handed on as the float of the same value
PyInt_Float(n) ==
  [type |-> "float", n |-> n, frac |-> 0]

PyInt(n) ==
  [type |-> "int", n |-> n, frac |-> 0]

\* isinstance with the number types of risk_calculator.py:63
isinstance_int_Number(v) ==
  v.type \in {"int", "bool", "float"}

\* line 24: isinstance(risk_score, int); bool is a subclass of int
isinstance_int(v) ==
  v.type \in {"int", "bool"}

\* the tiers with the upper end of Safe left out
calculate_risk_status_Strict(risk_score) ==
  IF ~isinstance_int(risk_score) \/ risk_score.n < 0 \/ risk_score.n > 10
    THEN "ValueError"
  ELSE IF risk_score.n < 3 THEN "Safe"
  ELSE IF risk_score.n <= 6 THEN "Warning"
  ELSE "Flagged"

\* "ValueError" stands for the raise of line 25; the comparisons are only
\* reached by an int, whose value is n
calculate_risk_status(risk_score) ==
  IF ~isinstance_int(risk_score) \/ risk_score.n < 0 \/ risk_score.n > 10
    THEN "ValueError"
  ELSE IF risk_score.n <= 3 THEN "Safe"
  ELSE IF risk_score.n <= 6 THEN "Warning"
  ELSE "Flagged"

\* ------------------------------------------------------------------------
\* services/agent_service.py : audit_response (keyword-based auditor)
\* ------------------------------------------------------------------------

\* agent_service.py:201-205
critical_keywords ==
  <<<<"k","i","l","l">>,
    <<"m","u","r","d","e","r">>,
    <<"s","u","i","c","i","d","e">>,
    <<"b","o","m","b">>,
    <<"w","e","a","p","o","n">>,
    <<"g","u","n">>,
    <<"s","h","o","o","t">>,
    <<"s","t","a","b">>,
    <<"p","o","i","s","o","n">>,
    <<"h","u","r","t">>,
    <<"h","a","r","m">>,
    <<"a","t","t","a","c","k">>,
    <<"a","s","s","a","u","l","t">>,
    <<"a","b","u","s","e">>,
    <<"t","o","r","t","u","r","e">>,
    <<"k","i","d","n","a","p">>,
    <<"r","a","p","e">>,
    <<"m","o","l","e","s","t">>,
    <<"t","e","r","r","o","r","i","s","t">>,
    <<"e","x","p","l","o","s","i","o","n">>>>

\* agent_service.py:214-219
high_risk_keywords ==
  <<<<"h","a","c","k">>,
    <<"c","r","a","c","k">>,
    <<"s","t","e","a","l">>,
    <<"r","o","b">>,
    <<"t","h","e","f","t">>,
    <<"f","r","a","u","d">>,
    <<"s","c","a","m">>,
    <<"e","x","p","l","o","i","t">>,
    <<"m","a","l","w","a","r","e">>,
    <<"v","i","r","u","s">>,
    <<"r","a","n","s","o","m","w","a","r","e">>,
    <<"p","h","i","s","h","i","n","g">>,
    <<"i","l","l","e","g","a","l">>,
    <<"c","r","i","m","e">>,
    <<"c","r","i","m","i","n","a","l">>,
    <<"b","r","e","a","k"," ","i","n","t","o">>,
    <<"b","y","p","a","s","s"," ","s","e","c","u","r","i","t","y">>,
    <<"p","a","s","s","w","o","r","d"," ","c","r","a","c","k">>,
    <<"c","r","e","d","i","t"," ","c","a","r","d"," ","f","r","a","u","d">>,
    <<"i","d","e","n","t","i","t","y"," ","t","h","e","f","t">>>>

\* agent_service.py:228-232
medium_risk_keywords ==
  <<<<"d","r","u","g">>,
    <<"c","o","c","a","i","n","e">>,
    <<"h","e","r","o","i","n">>,
    <<"m","e","t","h">>,
    <<"m","a","r","i","j","u","a","n","a">>,
    <<"w","e","e","d">>,
    <<"e","x","p","l","o","s","i","v","e">>,
    <<"a","m","m","u","n","i","t","i","o","n">>,
    <<"f","i","r","e","a","r","m">>,
    <<"k","n","i","f","e">>,
    <<"b","l","a","d","e">>,
    <<"c","h","e","m","i","c","a","l"," ","w","e","a","p","o","n">>,
    <<"p","o","i","s","o","n"," ","g","a","s">>,
    <<"d","a","n","g","e","r","o","u","s"," ","s","u","b","s","t","a","n","c","e">>>>

\* agent_service.py:241-245
moderate_risk_keywords ==
  <<<<"m","e","d","i","c","a","l"," ","a","d","v","i","c","e">>,
    <<"d","i","a","g","n","o","s","i","s">>,
    <<"t","r","e","a","t","m","e","n","t">>,
    <<"m","e","d","i","c","a","t","i","o","n">>,
    <<"l","e","g","a","l"," ","a","d","v","i","c","e">>,
    <<"l","a","w","s","u","i","t">>,
    <<"c","o","n","t","r","a","c","t">>,
    <<"f","i","n","a","n","c","i","a","l"," ","a","d","v","i","c","e">>,
    <<"i","n","v","e","s","t","m","e","n","t">>,
    <<"s","t","o","c","k"," ","t","i","p">>,
    <<"g","a","m","b","l","i","n","g">>,
    <<"b","e","t">>>>

\* agent_service.py:253-257
pii_keywords ==
  <<<<"s","o","c","i","a","l"," ","s","e","c","u","r","i","t","y">>,
    <<"s","s","n">>,
    <<"c","r","e","d","i","t"," ","c","a","r","d">>,
    <<"b","a","n","k"," ","a","c","c","o","u","n","t">>,
    <<"p","a","s","s","w","o","r","d">>,
    <<"p","i","n"," ","c","o","d","e">>,
    <<"d","r","i","v","e","r"," ","l","i","c","e","n","s","e">>,
    <<"p","a","s","s","p","o","r","t"," ","n","u","m","b","e","r">>,
    <<"p","h","o","n","e"," ","n","u","m","b","e","r">>,
    <<"e","m","a","i","l"," ","a","d","d","r","e","s","s">>,
    <<"h","o","m","e"," ","a","d","d","r","e","s","s">>,
    <<"d","a","t","e"," ","o","f"," ","b","i","r","t","h">>>>

\* agent_service.py:266-270
hate_keywords ==
  <<<<"r","a","c","i","s","t">>,
    <<"s","e","x","i","s","t">>,
    <<"h","o","m","o","p","h","o","b","i","c">>,
    <<"t","r","a","n","s","p","h","o","b","i","c">>,
    <<"x","e","n","o","p","h","o","b","i","c">>,
    <<"h","a","t","e"," ","s","p","e","e","c","h">>,
    <<"d","i","s","c","r","i","m","i","n","a","t","i","o","n">>,
    <<"s","l","u","r">>,
    <<"b","i","g","o","t">>,
    <<"n","a","z","i">>,
    <<"w","h","i","t","e"," ","s","u","p","r","e","m","a","c","y">>,
    <<"e","t","h","n","i","c"," ","c","l","e","a","n","s","i","n","g">>>>

\* agent_service.py:279-282
self_harm_keywords ==
  <<<<"s","e","l","f"," ","h","a","r","m">>,
    <<"c","u","t"," ","m","y","s","e","l","f">>,
    <<"e","n","d"," ","m","y"," ","l","i","f","e">>,
    <<"w","a","n","t"," ","t","o"," ","d","i","e">>,
    <<"s","u","i","c","i","d","e"," ","m","e","t","h","o","d">>,
    <<"o","v","e","r","d","o","s","e">>,
    <<"s","e","l","f"," ","i","n","j","u","r","y">>>>

\* agent_service.py:291-294
sexual_keywords ==
  <<<<"p","o","r","n">>,
    <<"p","o","r","n","o","g","r","a","p","h","y">>,
    <<"e","x","p","l","i","c","i","t"," ","c","o","n","t","e","n","t">>,
    <<"s","e","x","u","a","l"," ","c","o","n","t","e","n","t">>,
    <<"n","u","d","e">>,
    <<"n","s","f","w">>,
    <<"a","d","u","l","t"," ","c","o","n","t","e","n","t">>,
    <<"s","e","x"," ","t","a","p","e">>>>

\* The eight scans of audit_response, in source order.  where = "query"
\* tests query_lower only, "both" tests query_lower or response_lower.
Categories ==
  << [keywords |-> critical_keywords,      points |-> 8, toxic |-> TRUE,
      pii |-> FALSE, where |-> "query",
      tag |-> "CRITICAL: Violence/harm keyword detected"],
     [keywords |-> high_risk_keywords,     points |-> 6, toxic |-> TRUE,
      pii |-> FALSE, where |-> "query",
      tag |-> "HIGH RISK: Illegal activity keyword"],
     [keywords |-> medium_risk_keywords,   points |-> 5, toxic |-> TRUE,
      pii |-> FALSE, where |-> "query",
      tag |-> "MEDIUM RISK: Dangerous substance/weapon"],
     [keywords |-> moderate_risk_keywords, points |-> 3, toxic |-> FALSE,
      pii |-> FALSE, where |-> "query",
      tag |-> "MODERATE RISK: Sensitive topic"],
     [keywords |-> pii_keywords,           points |-> 2, toxic |-> FALSE,
      pii |-> TRUE,  where |-> "both",
      tag |-> "PII RISK: Potential personal information"],
     [keywords |-> hate_keywords,          points |-> 6, toxic |-> TRUE,
      pii |-> FALSE, where |-> "query",
      tag |-> "HATE SPEECH: Discriminatory content"],
     [keywords |-> self_harm_keywords,     points |-> 8, toxic |-> TRUE,
      pii |-> FALSE, where |-> "query",
      tag |-> "CRITICAL: Self-harm indicator"],
     [keywords |-> sexual_keywords,        points |-> 4, toxic |-> TRUE,
      pii |-> FALSE, where |-> "query",
      tag |-> "SEXUAL CONTENT: Explicit material"] >>

\* a test that looks into the response for the keywords of every list
KeywordHit_Anywhere(cat, keyword, query_lower, response_lower) ==
  Contains(keyword, query_lower) \/ Contains(keyword, response_lower)

\* the test of one keyword inside one scan
KeywordHit(cat, keyword, query_lower, response_lower) ==
  \/ Contains(keyword, query_lower)
  \/ cat.where = "both" /\ Contains(keyword, response_lower)

\* `for keyword in ...: if ...: ...; break` : index of the first keyword
\* that hits, 0 when the loop ends without a hit
FirstHit(cat, query_lower, response_lower) ==
  IF \E i \in 1..Len(cat.keywords) :
       KeywordHit(cat, cat.keywords[i], query_lower, response_lower)
    THEN CHOOSE i \in 1..Len(cat.keywords) :
           /\ KeywordHit(cat, cat.keywords[i], query_lower, response_lower)
           /\ \A j \in 1..(i - 1) :
                ~KeywordHit(cat, cat.keywords[j], query_lower, response_lower)
    ELSE 0

\* a minimum that takes b off a larger a
Min_Wrapped(a, b) ==
  IF a <= b THEN a ELSE a - b

Min(a, b) ==
  IF a <= b THEN a ELSE b

NoRiskMessage ==
  "No risk indicators detected. Query appears safe."

\* locals that start with the hallucination flag set
AuditStart_Hallucination ==
  [risk_score |-> 0, hallucination_detected |-> TRUE, pii_detected |-> FALSE,
   toxic_content_detected |-> FALSE, details |-> << >>]

\* the local variables of audit_response before the first scan
AuditStart ==
  [risk_score |-> 0, hallucination_detected |-> FALSE, pii_detected |-> FALSE,
   toxic_content_detected |-> FALSE, details |-> << >>]

\* a scan without the break: every keyword that hits adds the points
ScanStep_EveryHit(acc, cat, query_lower, response_lower) ==
  LET hits == {i \in 1..Len(cat.keywords) :
                 KeywordHit(cat, cat.keywords[i], query_lower, response_lower)}
  IN  IF hits = {} THEN acc
      ELSE [acc EXCEPT
              !.risk_score = @ + Cardinality(hits) * cat.points,
              !.toxic_content_detected = @ \/ cat.toxic,
              !.pii_detected = @ \/ cat.pii,
              !.details = Append(@, [tag |-> cat.tag,
                                       kw |-> cat.keywords[CHOOSE i \in hits : TRUE],
                                       error |-> ""])]

\* one scan applied to the locals
ScanStep(acc, cat, query_lower, response_lower) ==
  LET h == FirstHit(cat, query_lower, response_lower)
  IN  IF h = 0 THEN acc
      ELSE [acc EXCEPT
              !.risk_score = @ + cat.points,
              !.toxic_content_detected = @ \/ cat.toxic,
              !.pii_detected = @ \/ cat.pii,
              !.details = Append(@, [tag |-> cat.tag, kw |-> cat.keywords[h],
                                       error |-> ""])]

\* scans that assign the points of a category that hits instead of adding
\* them
RECURSIVE ScanFrom_Assigned(_, _, _, _)
ScanFrom_Assigned(i, acc, query_lower, response_lower) ==
  IF i > Len(Categories) THEN acc
  ELSE ScanFrom_Assigned(
         i + 1,
         CHOOSE next \in
           {IF step = acc THEN acc
            ELSE [step EXCEPT !.risk_score = Categories[i].points] :
              step \in {ScanStep(acc, Categories[i], query_lower,
                                 response_lower)}} : TRUE,
         query_lower, response_lower)

RECURSIVE ScanFrom(_, _, _, _)
ScanFrom(i, acc, query_lower, response_lower) ==
  IF i > Len(Categories) THEN acc
  ELSE ScanFrom(i + 1, ScanStep(acc, Categories[i], query_lower, response_lower),
                query_lower, response_lower)

\* the cap without the message for a score of 0
AuditFinish_NoMessage(acc) ==
  [acc EXCEPT !.risk_score = Min(@, 10)]

\* lines 302-319: the cap, the no-risk message and the AuditResult
AuditFinish(acc) ==
  LET capped == Min(acc.risk_score, 10)
  IN  [acc EXCEPT
         !.risk_score = capped,
         !.details = IF capped = 0
                       THEN Append(@, [tag |-> NoRiskMessage, kw |-> << >>,
                                        error |-> ""])
                       ELSE @]

\* audit_response: a raise is [raised |-> TRUE, error |-> message];
\* query_lower and response_lower (lines 191-192) are computed once and the
\* locals reach line 302 after the eight scans
audit_response(query, response) ==
  IF IsBlank(query)
    THEN [raised |-> TRUE, error |-> "Query cannot be empty", result |-> AuditStart]
  ELSE IF IsBlank(response)
    THEN [raised |-> TRUE, error |-> "Response cannot be empty", result |-> AuditStart]
  ELSE CHOOSE res \in
         {[raised |-> FALSE, error |-> "", result |-> AuditFinish(acc)] :
            acc \in {ScanFrom(1, AuditStart, query_lower, response_lower) :
                       query_lower \in {Lower(query)},
                       response_lower \in {Lower(response)}}} : TRUE

\* a dict whose risk_score is not the one of the assessment
to_dict_NoScore(a) ==
  [risk_score |-> 0,
   hallucination_detected |-> a.hallucination_detected,
   pii_detected |-> a.pii_detected,
   toxic_content_detected |-> a.toxic_content_detected,
   details |-> a.details]

\* AuditResult.to_dict / FallbackAuditResult.to_dict: the same five keys
to_dict(a) ==
  [risk_score |-> a.risk_score,
   hallucination_detected |-> a.hallucination_detected,
   pii_detected |-> a.pii_detected,
   toxic_content_detected |-> a.toxic_content_detected,
   details |-> a.details]

\* a fallback that scores the unaudited response 0
FallbackAuditResult_Zero(e) ==
  [risk_score |-> 0, hallucination_detected |-> FALSE, pii_detected |-> FALSE,
   toxic_content_detected |-> FALSE,
   details |-> << [tag |-> "Audit failed", kw |-> << >>, error |-> e] >>]

\* main.py FallbackAuditResult for the exception e of audit_response
FallbackAuditResult(e) ==
  [risk_score |-> 5, hallucination_detected |-> FALSE, pii_detected |-> FALSE,
   toxic_content_detected |-> FALSE,
   details |-> << [tag |-> "Audit failed", kw |-> << >>, error |-> e] >>]

\* ------------------------------------------------------------------------
\* Bounds and inputs
\* ------------------------------------------------------------------------

\* number of event loops (server worker processes) the invocations run on
NumLoops ==
  2

Loops ==
  1..NumLoops

\* the invocations in flight
Runs ==
  {1, 2}

\* user_query / query arguments: empty, whitespace-only, harmless, harmful
Queries ==
  { << >>, <<" ">>, <<"H","i">>, <<"K","i","l","l">> }

\* message.content of a worker reply that carries a str, and the response
\* argument of audit_response: empty, whitespace-only, text
Contents ==
  { << >>, <<" ">>, <<"o","k">> }

\* what one chat.completions.create call can do: raise, reply with
\* message.content = None, or reply with a str
WorkerReplies ==
  { [kind |-> "raise", content |-> << >>],
    [kind |-> "none",  content |-> << >>] }
  \cup { [kind |-> "text", content |-> c] : c \in Contents }

\* what the store can do with one insert(...).execute(): raise, answer with
\* the inserted row, or answer without row data
InsertReplies ==
  {"raise", "row", "nodata"}

\* what the store can do with one select(...).limit(n).execute(): raise,
\* answer with its most recent rows, or answer with no rows
SelectReplies ==
  {"raise", "rows", "empty"}

Entries ==
  {"process_agent", "process_worker_query", "audit_response"}

\* most words in a query argument of audit_response
MaxWords ==
  2

\* words of the query arguments: one or two per keyword list ("Skill" holds
\* "kill" in mixed case), and one that is in no list
Vocabulary ==
  << <<"S","k","i","l","l">>,
     <<"m","u","r","d","e","r">>,
     <<"h","a","c","k">>,
     <<"d","r","u","g">>,
     <<"b","e","t">>,
     <<"g","a","m","b","l","i","n","g">>,
     <<"s","s","n">>,
     <<"r","a","c","i","s","t">>,
     <<"o","v","e","r","d","o","s","e">>,
     <<"p","o","r","n">>,
     <<"h","e","l","l","o">> >>

\* the words with these indices, joined by single spaces
RECURSIVE Join(_)
Join(ws) ==
  IF Len(ws) = 0 THEN << >>
  ELSE IF Len(ws) = 1 THEN Vocabulary[ws[1]]
  ELSE Vocabulary[ws[1]] \o <<" ">> \o Join(Tail(ws))

\* query arguments of audit_response: up to MaxWords words
AuditQueries ==
  {Join(ws) : ws \in UNION {[1..k -> 1..Len(Vocabulary)] : k \in 0..MaxWords}}

\* the lists of up to MaxWords word indices
WordLists ==
  UNION {[1..k -> 1..Len(Vocabulary)] : k \in 0..MaxWords}

\* the word list ws without its i-th word
Without(ws, i) ==
  SubSeq(ws, 1, i - 1) \o SubSeq(ws, i + 1, Len(ws))

\* the word lists got from ws by leaving words out
RECURSIVE Shorter(_)
Shorter(ws) ==
  {ws} \cup UNION {Shorter(Without(ws, i)) : i \in 1..Len(ws)}

\* the one-word queries "Skill" and "hello"
ProbeQueries ==
  {Join(<<1>>), Join(<<Len(Vocabulary)>>)}

\* response arguments of audit_response: empty, harmless, holding a PII
\* keyword in upper case
AuditResponses ==
  { << >>, <<"o","k">>, <<"S","S","N">> }

\* responses for one query: the non-blank ones above and one that holds a
\* keyword of the critical list
PairedResponses ==
  (AuditResponses \ {<< >>}) \cup {<<"I"," ","k","i","l","l">>}

\* largest limit argument of get_recent_logs
MaxLimit ==
  2

\* most rows the logs table holds before the calls
MaxStored ==
  2

\* limit arguments: negative, zero, positive
Limits ==
  (0 - 1)..MaxLimit

\* audit arguments of create_audit_log: the empty dict, a dict without
\* pii_detected and toxic_content_detected, and a dict with the four fields
\* (tests/test_database_service.py)
AuditArgs ==
  { << >>,
    [risk_score |-> 5, hallucination_detected |-> FALSE],
    [risk_score |-> 5, hallucination_detected |-> FALSE,
     pii_detected |-> FALSE, toxic_content_detected |-> FALSE] }

\* status arguments of create_audit_log
StatusArgs ==
  {"Safe", "Invalid"}

NoDbArgs ==
  [audit |-> << >>, status |-> "", limit |-> 0]

\* the arguments of a call of create_audit_log or get_recent_logs
DbArgs(e) ==
  IF e = "create_audit_log"
    THEN {[audit |-> a, status |-> st, limit |-> 0] :
            a \in AuditArgs, st \in StatusArgs}
    ELSE {[audit |-> << >>, status |-> "", limit |-> l] : l \in Limits}

\* main.py:28-34
required_env_vars ==
  <<"GROQ_API_KEY", "GEMINI_API_KEY", "SUPABASE_URL",
    "SUPABASE_SERVICE_ROLE_KEY", "FRONTEND_URL">>

EnvNames ==
  {required_env_vars[i] : i \in 1..Len(required_env_vars)}

\* a variable of the environment: unset, empty, whitespace-only, a key, and
\* a key with a blank before it
EnvValues ==
  { [set |-> FALSE, value |-> << >>],
    [set |-> TRUE, value |-> << >>],
    [set |-> TRUE, value |-> <<" ">>],
    [set |-> TRUE, value |-> <<"k">>],
    [set |-> TRUE, value |-> <<" ", "k">>] }

\* the environment of a process whose services have been set up
EnvOk ==
  [v \in EnvNames |-> [set |-> TRUE, value |-> <<"k">>]]

AuditKeys ==
  {"risk_score", "hallucination_detected", "pii_detected",
   "toxic_content_detected", "details"}

\* the text of a generate_content reply: whether it is JSON (fenced in a
\* code block or not), the keys of the object and their values
Reply(fenced, keys, score, flag, details) ==
  [parses |-> TRUE, fenced |-> fenced, keys |-> keys, risk_score |-> score,
   hallucination_detected |-> flag, pii_detected |-> flag,
   toxic_content_detected |-> flag,
   details |-> << [tag |-> details, kw |-> << >>, error |-> ""] >>]

NoReply ==
  [Reply(FALSE, {}, 0, FALSE, "") EXCEPT !.parses = FALSE]

\* replies the gemini_model mock of tests/test_agent_service.py is given:
\* text that is no JSON, an object without toxic_content_detected and
\* details, scores 15 and -1, the boundary scores 0 and 10, a fenced object
EvaluatorReplies ==
  { NoReply,
    Reply(FALSE, AuditKeys \ {"toxic_content_detected", "details"}, 3, FALSE, ""),
    Reply(FALSE, AuditKeys, 15, FALSE, "Invalid score"),
    Reply(FALSE, AuditKeys, 0 - 1, FALSE, "Invalid score"),
    Reply(FALSE, AuditKeys, 0, FALSE, "Perfectly safe"),
    Reply(FALSE, AuditKeys, 10, TRUE, "Maximum risk"),
    Reply(TRUE, AuditKeys, 2, FALSE, "Response appears factual and safe.") }

\* how far below 0 and above 10 the risk_score arguments reach
ScoreMargin ==
  3

PyNone ==
  [type |-> "NoneType", n |-> 0, frac |-> 0]

\* risk_score arguments of calculate_risk_status: ints and floats in and
\* around [0,10] (5.5 and 5.0 among the floats), the bools, None and a str
Scores ==
  LET range == (0 - ScoreMargin)..(10 + ScoreMargin)
  IN  {PyInt(n) : n \in range}
        \cup {[type |-> "float", n |-> n, frac |-> f] : n \in range, f \in {0, 5}}
        \cup {[type |-> "bool", n |-> n, frac |-> 0] : n \in {0, 1}}
        \cup {PyNone, [type |-> "str", n |-> 0, frac |-> 0]}

\* agent_service.py:117
max_attempts ==
  3

\* agent_service.py:118
base_delay ==
  1

\* ------------------------------------------------------------------------
\* State
\* ------------------------------------------------------------------------

VARIABLES
  entry,           \* [run -> which function the invocation is a call of]
  query,           \* [run -> request.user_query / the query argument]
  response_arg,    \* [run -> the response argument of a call of audit_response]
  risk_score_arg,  \* [run -> the argument of a call of calculate_risk_status]
  evaluator_reply, \* [run -> what gemini_model.generate_content answers when called]
  db_args,         \* [run -> audit, status and limit arguments of a DatabaseService call]
  env,             \* os.environ after load_dotenv(): [name -> set?, value]
  loopOf,          \* [run -> event loop the invocation runs on]
  pc,              \* [run -> position of the invocation]
  attempt,         \* [run -> loop variable of process_worker_query]
  last_exception,  \* [run -> local of process_worker_query, "" is None]
  worker_content,  \* [run -> worker_response.content]
  audit_result,    \* [run -> audit_result of process_agent]
  risk_status,     \* [run -> risk_status of process_agent]
  log_id,          \* [run -> log_id of process_agent, 0 when unset]
  outcome,         \* [run -> what the invocation returned or raised]
  hist,            \* [run -> record of the outbound calls and waits so far]
  busy,            \* [loop -> the run its thread is executing, 0 when idle]
  store,           \* rows of the logs table, in insertion order
  now              \* the clock

inputVars ==
  <<entry, query, response_arg, risk_score_arg, evaluator_reply, db_args,
    env, loopOf>>

vars ==
  <<entry, query, response_arg, risk_score_arg, evaluator_reply, db_args,
    env, loopOf, pc,
    attempt, last_exception,
    worker_content, audit_result, risk_status, log_id, outcome, hist, busy,
    store, now>>

\* a row of the logs table / the fields of a ProcessAgentResponse
NoRecord ==
  [id |-> 0, query |-> << >>, response |-> << >>, audit |-> to_dict(AuditStart),
   status |-> "", created_at |-> 0]

NoOutcome ==
  [kind |-> "none", code |-> 0, detail |-> "", cause |-> "", body |-> NoRecord]

\* raise HTTPException(status_code=code, detail=f"{detail}{cause}")
HttpError(code, detail, cause) ==
  [kind |-> "http_error", code |-> code, detail |-> detail, cause |-> cause,
   body |-> NoRecord]

\* a service method called on its own raises: detail is the exception type
\* and message, cause the exception the message quotes
Raised(detail, cause) ==
  [kind |-> "raise", code |-> 0, detail |-> detail, cause |-> cause,
   body |-> NoRecord]

\* a service method called on its own returns
Returned(body) ==
  [kind |-> "return", code |-> 0, detail |-> "", cause |-> "", body |-> body]

\* process_agent returns a ProcessAgentResponse
Success(body) ==
  [kind |-> "success", code |-> 200, detail |-> "", cause |-> "", body |-> body]

\* what an invocation has done so far
NoHist ==
  [calls |-> 0,            \* chat.completions.create calls
   requests |-> << >>,     \* the arguments of each of these calls, in order
   sleeps |-> << >>,       \* arguments of the time.sleep calls, in order
   errs |-> << >>,         \* the exception of each failed attempt, in order
   succeeded_at |-> 0,     \* the attempt that returned, 0 when none has
   audits |-> 0,           \* audit_response calls
   audit_failed |-> FALSE, \* the call of audit_response raised
   evals |-> 0,            \* gemini_model.generate_content calls
   eval_sleeps |-> << >>,  \* time.sleep calls made inside audit_response
   creates |-> 0,          \* create_audit_log calls
   handed |-> NoRecord,    \* the arguments of the create_audit_log call
   inserts |-> 0,          \* insert(...).execute() calls
   insert_reply |-> "",    \* what the insert call did
   selects |-> 0,          \* select(...).execute() calls
   select_reply |-> "",    \* what the select call did
   select_limit |-> 0,     \* the argument of .limit(...) of the select call
   logs |-> << >>,         \* the list get_recent_logs returned
   ended_at |-> ""]        \* the step at which the invocation ended

\* the state every invocation starts in
FreshRuns ==
  /\ pc = [r \in Runs |-> "pending"]
  /\ attempt = [r \in Runs |-> 0]
  /\ last_exception = [r \in Runs |-> ""]
  /\ worker_content = [r \in Runs |-> << >>]
  /\ audit_result = [r \in Runs |-> AuditStart]
  /\ risk_status = [r \in Runs |-> ""]
  /\ log_id = [r \in Runs |-> 0]
  /\ outcome = [r \in Runs |-> NoOutcome]
  /\ hist = [r \in Runs |-> NoHist]
  /\ busy = [l \in Loops |-> 0]

\* no invocation has started and the logs table is empty
Fresh ==
  /\ FreshRuns
  /\ store = << >>
  /\ now = 0

\* event loops are interchangeable: the loop of run 1 is called 1
Placement ==
  /\ loopOf \in [Runs -> Loops]
  /\ loopOf[1] = 1

\* requests to POST /process-agent
Init ==
  /\ entry = [r \in Runs |-> "process_agent"]
  /\ query \in [Runs -> Queries]
  /\ response_arg = [r \in Runs |-> << >>]
  /\ risk_score_arg = [r \in Runs |-> PyNone]
  /\ evaluator_reply = [r \in Runs |-> NoReply]
  /\ db_args = [r \in Runs |-> NoDbArgs]
  /\ env = EnvOk
  /\ Placement
  /\ Fresh

\* run 2 is a call of one of the two AgentService methods on its own,
\* run 1 is any invocation
InitCalls ==
  /\ entry \in [Runs -> Entries]
  /\ entry[2] # "process_agent"
  /\ query \in [Runs -> Queries]
  /\ response_arg \in [Runs -> Contents]
  /\ \A r \in Runs : entry[r] # "audit_response" => response_arg[r] = << >>
  /\ risk_score_arg = [r \in Runs |-> PyNone]
  /\ evaluator_reply = [r \in Runs |-> NoReply]
  /\ db_args = [r \in Runs |-> NoDbArgs]
  /\ env = EnvOk
  /\ Placement
  /\ Fresh

\* two calls of audit_response on their own: run 1 with any of the
\* arguments, run 2 with a one-word query and a harmless response
InitAudit ==
  /\ entry = [r \in Runs |-> "audit_response"]
  /\ query \in [Runs -> AuditQueries]
  /\ query[2] \in ProbeQueries
  /\ response_arg \in [Runs -> AuditResponses]
  /\ response_arg[2] = <<"o","k">>
  /\ risk_score_arg = [r \in Runs |-> PyNone]
  /\ evaluator_reply = [r \in Runs |-> NoReply]
  /\ db_args = [r \in Runs |-> NoDbArgs]
  /\ env = EnvOk
  /\ Placement
  /\ Fresh

\* two calls of audit_response with one query and any two responses
InitPaired ==
  /\ entry = [r \in Runs |-> "audit_response"]
  /\ query \in [Runs -> AuditQueries]
  /\ query[2] = query[1]
  /\ response_arg \in [Runs -> PairedResponses]
  /\ risk_score_arg = [r \in Runs |-> PyNone]
  /\ evaluator_reply = [r \in Runs |-> NoReply]
  /\ db_args = [r \in Runs |-> NoDbArgs]
  /\ env = EnvOk
  /\ loopOf = [r \in Runs |-> 1]
  /\ Fresh

\* two calls of audit_response: run 1 with a query of up to MaxWords words,
\* run 2 with a query made of some of these words or with a one-word query
InitNested ==
  /\ entry = [r \in Runs |-> "audit_response"]
  /\ query \in UNION {{<<Join(ws), q>> :
                          q \in {Join(sub) : sub \in Shorter(ws)}
                                  \cup ProbeQueries} :
                        ws \in WordLists}
  /\ response_arg = [r \in Runs |-> <<"o","k">>]
  /\ risk_score_arg = [r \in Runs |-> PyNone]
  /\ evaluator_reply = [r \in Runs |-> NoReply]
  /\ db_args = [r \in Runs |-> NoDbArgs]
  /\ env = EnvOk
  /\ loopOf = [r \in Runs |-> 1]
  /\ Fresh

\* two calls of audit_response on their own while the evaluator model
\* stands ready to answer with any of the replies
InitEvaluator ==
  /\ entry = [r \in Runs |-> "audit_response"]
  /\ query \in [Runs -> Queries]
  /\ response_arg \in [Runs -> Contents]
  /\ risk_score_arg = [r \in Runs |-> PyNone]
  /\ evaluator_reply \in [Runs -> EvaluatorReplies]
  /\ db_args = [r \in Runs |-> NoDbArgs]
  /\ env = EnvOk
  /\ loopOf = [r \in Runs |-> 1]
  /\ Fresh

\* two calls of calculate_risk_status on their own
InitClassify ==
  /\ entry = [r \in Runs |-> "calculate_risk_status"]
  /\ query = [r \in Runs |-> << >>]
  /\ response_arg = [r \in Runs |-> << >>]
  /\ risk_score_arg \in [Runs -> Scores]
  /\ evaluator_reply = [r \in Runs |-> NoReply]
  /\ db_args = [r \in Runs |-> NoDbArgs]
  /\ env = EnvOk
  /\ loopOf = [r \in Runs |-> 1]
  /\ Fresh

\* ------------------------------------------------------------------------
\* Scheduling: the handlers are `async def` but await nothing that
\* suspends (the Groq and Supabase clients are synchronous, the backoff is
\* time.sleep), so an invocation keeps the thread of its event loop from
\* its first statement to its return or raise.
\* ------------------------------------------------------------------------

\* run r may execute its next statement
CanRun(r) ==
  busy[loopOf[r]] = r \/ (pc[r] = "pending" /\ busy[loopOf[r]] = 0)

\* an event loop that is not handed back when the coroutine is done
BusyAfter_Held(r, p) ==
  [busy EXCEPT ![loopOf[r]] = r]

\* busy after r executed a statement that leaves it at position p
BusyAfter(r, p) ==
  [busy EXCEPT ![loopOf[r]] = IF p = "done" THEN 0 ELSE r]

\* r returns or raises: outcome o, and its event loop is free again
Finish(r, o) ==
  /\ pc' = [pc EXCEPT ![r] = "done"]
  /\ outcome' = [outcome EXCEPT ![r] = o]
  /\ busy' = BusyAfter(r, "done")

\* r goes on to position p
Goto(r, p) ==
  /\ pc' = [pc EXCEPT ![r] = p]
  /\ busy' = BusyAfter(r, p)
  /\ UNCHANGED outcome

Ended(h, s) ==
  [h EXCEPT !.ended_at = s]

\* ------------------------------------------------------------------------
\* utils/risk_calculator.py : a call of calculate_risk_status on its own
\* ------------------------------------------------------------------------

calculate_risk_status_call(r) ==
  /\ pc[r] = "pending"
  /\ entry[r] = "calculate_risk_status"
  /\ CanRun(r)
  /\ LET st == calculate_risk_status(risk_score_arg[r])
     IN  Finish(r, IF st = "ValueError"
                     THEN Raised("ValueError",
                                 "Risk score must be an integer between 0 and 10")
                     ELSE Returned([NoRecord EXCEPT !.status = st]))
  /\ hist' = [hist EXCEPT ![r] = Ended(@, "classify")]
  /\ UNCHANGED <<inputVars, attempt, last_exception, worker_content,
                 audit_result, risk_status, log_id, store, now>>

\* ------------------------------------------------------------------------
\* services/agent_service.py : process_worker_query
\* ------------------------------------------------------------------------

\* lines 113-114
WorkerQueryRejected(q) ==
  IsBlank(q)

\* the delay with the exponent taken from attempt instead of attempt - 1
BackoffDelay_FromAttempt(a) ==
  base_delay * (2 ^ a)

\* line 167
BackoffDelay(a) ==
  base_delay * (2 ^ (a - 1))

\* a loop variable that is advanced once by the loop and once by the retry
NextAttempt_Twice(a) ==
  a + 2

\* line 122: the value of the loop variable after a
NextAttempt(a) ==
  a + 1

\* a loop that breaks one attempt late
IsLastAttempt_Late(a) ==
  a = max_attempts + 1

\* lines 163-164: no sleep after the last attempt
IsLastAttempt(a) ==
  a = max_attempts

\* the exception one attempt ends with, for a reply that is not returned:
\* create() raised, or content is None and line 148 subscripts it
AttemptError(reply) ==
  IF reply.kind = "raise" THEN "APIError" ELSE "TypeError"

\* lines 141-156: the attempt returns a WorkerResponse
AttemptReturns(reply) ==
  reply.kind = "text"

\* last_exception assigned only while it is still None
RecordException_First(prev, e) ==
  IF prev = "" THEN e ELSE prev

\* line 159: last_exception after an attempt raised e
RecordException(prev, e) ==
  e

\* a handler that answers a worker failure with an empty response
WorkerUnavailable_Swallowed(en, last) ==
  IF en = "process_worker_query"
    THEN Raised("Exception: Worker agent failed after 3 attempts: ", last)
    ELSE Success(NoRecord)

\* lines 171-174, and main.py 139-144 around them: all attempts failed
WorkerUnavailable(en, last) ==
  IF en = "process_worker_query"
    THEN Raised("Exception: Worker agent failed after 3 attempts: ", last)
    ELSE HttpError(500, "Worker agent failed to process query: Worker agent failed after 3 attempts: ",
                   last)

\* lines 129-139: the keyword arguments of chat.completions.create;
\* temperature 0.7 is written as a float with fraction digit 7
WorkerRequest(q) ==
  [messages |-> << [role |-> "user", content |-> q] >>,
   model |-> "llama-3.3-70b-versatile",
   temperature |-> [type |-> "float", n |-> 0, frac |-> 7],
   max_tokens |-> 1024]

\* an attempt counter kept on the service object: a call goes on from the
\* largest count the calls before it reached
process_worker_query_start_Carried(r) ==
  /\ pc[r] = "pending"
  /\ entry[r] = "process_worker_query"
  /\ CanRun(r)
  /\ IF WorkerQueryRejected(query[r])
       THEN /\ Finish(r, Raised("ValueError: Query cannot be empty", ""))
            /\ hist' = [hist EXCEPT ![r] = Ended(@, "validate")]
            /\ UNCHANGED attempt
       ELSE /\ Goto(r, "worker")
            /\ attempt' = [attempt EXCEPT ![r] =
                             CHOOSE n \in 1..max_attempts :
                               /\ \A s \in Runs : attempt[s] <= n
                               /\ n = 1 \/ \E s \in Runs : attempt[s] = n]
            /\ UNCHANGED hist
  /\ UNCHANGED <<inputVars, last_exception, worker_content, audit_result,
                 risk_status, log_id, store, now>>

\* a call of process_worker_query on its own: lines 112-120
process_worker_query_start(r) ==
  /\ pc[r] = "pending"
  /\ entry[r] = "process_worker_query"
  /\ CanRun(r)
  /\ IF WorkerQueryRejected(query[r])
       THEN /\ Finish(r, Raised("ValueError: Query cannot be empty", ""))
            /\ hist' = [hist EXCEPT ![r] = Ended(@, "validate")]
            /\ UNCHANGED attempt
       ELSE /\ Goto(r, "worker")
            /\ attempt' = [attempt EXCEPT ![r] = 1]
            /\ UNCHANGED hist
  /\ UNCHANGED <<inputVars, last_exception, worker_content, audit_result,
                 risk_status, log_id, store, now>>

\* one iteration of the retry loop up to its return, break or sleep:
\* lines 122-164 (and 171-174, main.py 139-144 when the loop is left)
WorkerAttempt(r) ==
  /\ pc[r] = "worker"
  /\ CanRun(r)
  /\ \E reply \in WorkerReplies :
       LET called == [hist[r] EXCEPT
                        !.calls = @ + 1,
                        !.requests = Append(@, WorkerRequest(query[r]))]
           e == AttemptError(reply)
           failed == [called EXCEPT !.errs = Append(@, e)]
           returned == [called EXCEPT !.succeeded_at = attempt[r]]
       IN  IF AttemptReturns(reply)
             THEN /\ worker_content' = [worker_content EXCEPT ![r] = reply.content]
                  /\ UNCHANGED last_exception
                  /\ IF entry[r] = "process_worker_query"
                       THEN /\ Finish(r, Returned([NoRecord EXCEPT
                                                     !.query = query[r],
                                                     !.response = reply.content]))
                            /\ hist' = [hist EXCEPT ![r] = Ended(returned, "worker")]
                       ELSE /\ Goto(r, "audit")
                            /\ hist' = [hist EXCEPT ![r] = returned]
             ELSE /\ last_exception' =
                       [last_exception EXCEPT ![r] = RecordException(@, e)]
                  /\ UNCHANGED worker_content
                  /\ IF IsLastAttempt(attempt[r])
                       THEN /\ Finish(r, WorkerUnavailable(entry[r], last_exception'[r]))
                            /\ hist' = [hist EXCEPT ![r] = Ended(failed, "worker")]
                       ELSE /\ Goto(r, "sleep")
                            /\ hist' = [hist EXCEPT ![r] = failed]
  /\ UNCHANGED <<inputVars, attempt, audit_result, risk_status, log_id, store, now>>

\* lines 166-169 and the next value of the loop variable: time.sleep(delay)
\* returns after delay time units, with the thread held all the while
Backoff(r) ==
  /\ pc[r] = "sleep"
  /\ CanRun(r)
  /\ LET delay == BackoffDelay(attempt[r])
     IN  /\ hist' = [hist EXCEPT ![r].sleeps = Append(@, delay)]
         /\ now' = now + delay
  /\ attempt' = [attempt EXCEPT ![r] = NextAttempt(@)]
  /\ Goto(r, "worker")
  /\ UNCHANGED <<inputVars, last_exception, worker_content, audit_result,
                 risk_status, log_id, store>>

\* a call whose assessment also depends on the time of the call
audit_response_call_Clocked(r) ==
  /\ pc[r] = "pending"
  /\ entry[r] = "audit_response"
  /\ CanRun(r)
  /\ LET res == audit_response(query[r], response_arg[r])
         h == [hist[r] EXCEPT !.audits = @ + 1, !.audit_failed = res.raised]
         a == [res.result EXCEPT !.risk_score = Min(@ + now, 10)]
     IN  /\ Finish(r,
                IF res.raised
                  THEN Raised("ValueError", res.error)
                  ELSE Returned([NoRecord EXCEPT !.query = query[r],
                                                 !.response = response_arg[r],
                                                 !.audit = to_dict(a)]))
         /\ hist' = [hist EXCEPT ![r] = Ended(h, "audit")]
  /\ UNCHANGED <<inputVars, attempt, last_exception, worker_content,
                 audit_result, risk_status, log_id, store, now>>

\* a call of audit_response on its own
audit_response_call(r) ==
  /\ pc[r] = "pending"
  /\ entry[r] = "audit_response"
  /\ CanRun(r)
  /\ LET res == audit_response(query[r], response_arg[r])
         h == [hist[r] EXCEPT !.audits = @ + 1, !.audit_failed = res.raised]
     IN  /\ Finish(r,
                IF res.raised
                  THEN Raised("ValueError", res.error)
                  ELSE Returned([NoRecord EXCEPT !.query = query[r],
                                                 !.response = response_arg[r],
                                                 !.audit = to_dict(res.result)]))
         /\ hist' = [hist EXCEPT ![r] = Ended(h, "audit")]
  /\ UNCHANGED <<inputVars, attempt, last_exception, worker_content,
                 audit_result, risk_status, log_id, store, now>>

\* ------------------------------------------------------------------------
\* services/database_service.py
\* ------------------------------------------------------------------------

ValidStatuses ==
  {"Safe", "Warning", "Flagged"}

required_audit_fields ==
  {"risk_score", "hallucination_detected", "pii_detected", "toxic_content_detected"}

\* the checks with `not query` and `not response` only
CreateAuditLogRejection_NoStrip(q, response, audit, status) ==
  IF Len(q) = 0 THEN "Query cannot be empty"
  ELSE IF Len(response) = 0 THEN "Response cannot be empty"
  ELSE IF DOMAIN audit = {} THEN "Audit data cannot be empty"
  ELSE IF status \notin ValidStatuses THEN "Invalid status"
  ELSE IF ~(required_audit_fields \subseteq DOMAIN audit)
    THEN "Audit data missing required field"
  ELSE ""

\* lines 79-93: the ValueError message create_audit_log raises before any
\* insert, "" when the arguments pass
CreateAuditLogRejection(q, response, audit, status) ==
  IF IsBlank(q) THEN "Query cannot be empty"
  ELSE IF IsBlank(response) THEN "Response cannot be empty"
  ELSE IF DOMAIN audit = {} THEN "Audit data cannot be empty"
  ELSE IF status \notin ValidStatuses THEN "Invalid status"
  ELSE IF ~(required_audit_fields \subseteq DOMAIN audit)
    THEN "Audit data missing required field"
  ELSE ""

RECURSIVE StoredRows(_)

\* the id the store gives a new row: one no other row has
NewId(rows) ==
  Len(rows) + 1

\* an insert that carries the risk_score of the audit only
NewRow_ScoreOnly(rows, q, response, audit, status, t) ==
  [id |-> NewId(rows), query |-> q, response |-> response,
   audit |-> [risk_score |-> audit.risk_score],
   status |-> status, created_at |-> t]

\* the row the table holds after an insert: id and created_at are column
\* defaults of the store
NewRow(rows, q, response, audit, status, t) ==
  [id |-> NewId(rows), query |-> q, response |-> response, audit |-> audit,
   status |-> status, created_at |-> t]

\* the number of rows in the reply taken for the id
ReturnedId_Count(data) ==
  Len(data)

\* lines 105-108: the id create_audit_log returns for the reply data
ReturnedId(data) ==
  data[1].id

\* lines 136-140: order("created_at", desc=True).limit(limit) over rows whose
\* created_at increases with the insertion order
RecentFirst(rows, limit) ==
  [i \in 1..Min(limit, Len(rows)) |-> rows[Len(rows) + 1 - i]]

\* a check that lets limit = 0 through
LimitRejected_Negative(limit) ==
  limit < 0

\* lines 131-132
LimitRejected(limit) ==
  limit <= 0

\* a call of create_audit_log on its own (lines 79-114)
create_audit_log_call(r) ==
  /\ pc[r] = "pending"
  /\ entry[r] = "create_audit_log"
  /\ CanRun(r)
  /\ LET audit == db_args[r].audit
         status == db_args[r].status
         rejection == CreateAuditLogRejection(query[r], response_arg[r],
                                              audit, status)
         created == [hist[r] EXCEPT
                       !.creates = @ + 1,
                       !.handed = [NoRecord EXCEPT !.query = query[r],
                                                   !.response = response_arg[r],
                                                   !.status = status]]
     IN  IF rejection # ""
           THEN /\ Finish(r, Raised("ValueError", rejection))
                /\ hist' = [hist EXCEPT ![r] = Ended(created, "validate")]
                /\ UNCHANGED <<store, now>>
           ELSE \E reply \in InsertReplies :
                  LET row == NewRow(store, query[r], response_arg[r], audit,
                                    status, now + 1)
                      h == Ended([created EXCEPT !.inserts = @ + 1,
                                                 !.insert_reply = reply],
                                 "persist")
                  IN  /\ hist' = [hist EXCEPT ![r] = h]
                      /\ IF reply = "raise"
                           THEN /\ Finish(r, Raised("Exception", "Database error: Failed to create audit log - StoreError"))
                                /\ UNCHANGED <<store, now>>
                         ELSE IF reply = "nodata"
                           THEN /\ store' = Append(store, row)
                                /\ now' = now + 1
                                /\ Finish(r, Raised("Exception", "Database error: Failed to create audit log - Database insert succeeded but no ID was returned"))
                         ELSE /\ store' = Append(store, row)
                              /\ now' = now + 1
                              /\ Finish(r, Returned([NoRecord EXCEPT
                                                       !.id = ReturnedId(<<row>>)]))
  /\ UNCHANGED <<inputVars, attempt, last_exception, worker_content,
                 audit_result, risk_status, log_id>>

\* a call of get_recent_logs on its own (lines 130-148)
get_recent_logs_call(r) ==
  /\ pc[r] = "pending"
  /\ entry[r] = "get_recent_logs"
  /\ CanRun(r)
  /\ LET limit == db_args[r].limit
     IN  IF LimitRejected(limit)
           THEN /\ Finish(r, Raised("ValueError", "Limit must be a positive integer"))
                /\ hist' = [hist EXCEPT ![r] = Ended(@, "validate")]
           ELSE \E reply \in SelectReplies :
                  LET logs == IF reply = "rows" THEN RecentFirst(store, limit)
                              ELSE << >>
                      h == [hist[r] EXCEPT
                              !.selects = @ + 1,
                              !.select_limit = limit,
                              !.select_reply = IF reply = "rows" /\ Len(logs) = 0
                                                 THEN "empty" ELSE reply,
                              !.logs = logs]
                  IN  /\ hist' = [hist EXCEPT ![r] = Ended(h, "readback")]
                      /\ Finish(r, IF reply = "raise"
                                     THEN Raised("Exception", "Database error: Failed to retrieve audit logs - StoreError")
                                     ELSE Returned(NoRecord))
  /\ UNCHANGED <<inputVars, attempt, last_exception, worker_content,
                 audit_result, risk_status, log_id, store, now>>

\* ------------------------------------------------------------------------
\* main.py : process_agent
\* ------------------------------------------------------------------------

\* ProcessAgentRequest (lines 70-72): user_query has min_length=1; a shorter
\* one is answered 422 by the framework and process_agent is not entered
RequestModelRejects(q) ==
  Len(q) < 1

\* Validate without the strip() test
ValidateRejects_NoStrip(q) ==
  Len(q) = 0

\* lines 128-131
ValidateRejects(q) ==
  IsBlank(q)

\* a handler that answers a storage failure with an empty response
PersistenceFailed_Swallowed(e) ==
  Success(NoRecord)

\* lines 188-193: create_audit_log raised e
PersistenceFailed(e) ==
  HttpError(500, "Failed to store audit log: ", e)

\* the fallback response with the log id left out
FallbackResponse_NoId(r, t) ==
  [id |-> 0, query |-> query[r], response |-> worker_content[r],
   audit |-> to_dict(audit_result[r]), status |-> risk_status[r],
   created_at |-> t]

\* lines 210-221: the response built from the locals of process_agent at
\* time t
FallbackResponse(r, t) ==
  [id |-> log_id[r], query |-> query[r], response |-> worker_content[r],
   audit |-> to_dict(audit_result[r]), status |-> risk_status[r],
   created_at |-> t]

\* lines 198-207: the response built from the row read back
ReadBackResponse(created_log) ==
  [id |-> created_log.id, query |-> created_log.query,
   response |-> created_log.response, audit |-> created_log.audit,
   status |-> created_log.status, created_at |-> created_log.created_at]

\* lines 127-137: the request model, Validate, and entry into
\* process_worker_query (its own lines 112-120)
process_agent_start(r) ==
  /\ pc[r] = "pending"
  /\ entry[r] = "process_agent"
  /\ CanRun(r)
  /\ IF RequestModelRejects(query[r])
       THEN /\ Finish(r, HttpError(422, "string_too_short", ""))
            /\ hist' = [hist EXCEPT ![r] = Ended(@, "request_model")]
            /\ UNCHANGED attempt
     ELSE IF ValidateRejects(query[r])
       THEN /\ Finish(r, HttpError(400, "Query cannot be empty", ""))
            /\ hist' = [hist EXCEPT ![r] = Ended(@, "validate")]
            /\ UNCHANGED attempt
     ELSE IF WorkerQueryRejected(query[r])
       THEN /\ Finish(r, HttpError(500, "Worker agent failed to process query: ",
                                   "Query cannot be empty"))
            /\ hist' = [hist EXCEPT ![r] = Ended(@, "worker")]
            /\ UNCHANGED attempt
     ELSE /\ Goto(r, "worker")
          /\ attempt' = [attempt EXCEPT ![r] = 1]
          /\ UNCHANGED hist
  /\ UNCHANGED <<inputVars, last_exception, worker_content, audit_result,
                 risk_status, log_id, store, now>>

\* an audit step whose call of audit_response always raises, as with a
\* misspelled method name
Audit_Unreached(r) ==
  /\ pc[r] = "audit"
  /\ CanRun(r)
  /\ \E res \in {[raised |-> TRUE, error |-> "AttributeError",
                  result |-> AuditStart]} :
       LET a == IF res.raised THEN FallbackAuditResult(res.error) ELSE res.result
           st == calculate_risk_status(PyInt(a.risk_score))
           h == [hist[r] EXCEPT !.audits = @ + 1, !.audit_failed = res.raised]
       IN  /\ audit_result' = [audit_result EXCEPT ![r] = a]
           /\ IF st = "ValueError"
                THEN /\ Finish(r, HttpError(500, "Internal server error: ",
                                            "Risk score must be an integer between 0 and 10"))
                     /\ hist' = [hist EXCEPT ![r] = Ended(h, "classify")]
                     /\ UNCHANGED risk_status
                ELSE /\ risk_status' = [risk_status EXCEPT ![r] = st]
                     /\ Goto(r, "persist")
                     /\ hist' = [hist EXCEPT ![r] = h]
  /\ UNCHANGED <<inputVars, attempt, last_exception, worker_content, log_id,
                 store, now>>

\* lines 146-177: audit_response or the fallback, then calculate_risk_status
Audit(r) ==
  /\ pc[r] = "audit"
  /\ CanRun(r)
  /\ \E res \in {audit_response(query[r], worker_content[r])} :
       LET a == IF res.raised THEN FallbackAuditResult(res.error) ELSE res.result
           st == calculate_risk_status(PyInt(a.risk_score))
           h == [hist[r] EXCEPT !.audits = @ + 1, !.audit_failed = res.raised]
       IN  /\ audit_result' = [audit_result EXCEPT ![r] = a]
           /\ IF st = "ValueError"
                THEN /\ Finish(r, HttpError(500, "Internal server error: ",
                                            "Risk score must be an integer between 0 and 10"))
                     /\ hist' = [hist EXCEPT ![r] = Ended(h, "classify")]
                     /\ UNCHANGED risk_status
                ELSE /\ risk_status' = [risk_status EXCEPT ![r] = st]
                     /\ Goto(r, "persist")
                     /\ hist' = [hist EXCEPT ![r] = h]
  /\ UNCHANGED <<inputVars, attempt, last_exception, worker_content, log_id,
                 store, now>>

\* a persist step that calls create_audit_log once more after an insert
\* that raised
Persist_Retried(r) ==
  /\ pc[r] = "persist"
  /\ CanRun(r)
  /\ LET audit == to_dict(audit_result[r])
         rejection == CreateAuditLogRejection(query[r], worker_content[r],
                                              audit, risk_status[r])
         created == [hist[r] EXCEPT
                       !.creates = @ + 1,
                       !.handed = [NoRecord EXCEPT !.query = query[r],
                                                   !.response = worker_content[r],
                                                   !.audit = audit,
                                                   !.status = risk_status[r]]]
     IN  IF rejection # ""
           THEN /\ Finish(r, PersistenceFailed(rejection))
                /\ hist' = [hist EXCEPT ![r] = Ended(created, "persist")]
                /\ UNCHANGED <<log_id, store, now>>
           ELSE \E reply \in InsertReplies :
                  LET row == NewRow(store, query[r], worker_content[r], audit,
                                    risk_status[r], now + 1)
                      h == [created EXCEPT !.inserts = @ + 1,
                                           !.insert_reply = reply]
                  IN  IF reply = "raise" /\ hist[r].inserts = 0
                        THEN /\ Goto(r, "persist")
                             /\ hist' = [hist EXCEPT ![r] = h]
                             /\ UNCHANGED <<log_id, store, now>>
                      ELSE IF reply = "raise"
                        THEN /\ Finish(r, PersistenceFailed("Database error: Failed to create audit log - StoreError"))
                             /\ hist' = [hist EXCEPT ![r] = Ended(h, "persist")]
                             /\ UNCHANGED <<log_id, store, now>>
                      ELSE IF reply = "nodata"
                        THEN /\ store' = Append(store, row)
                             /\ now' = now + 1
                             /\ Finish(r, PersistenceFailed("Database error: Failed to create audit log - Database insert succeeded but no ID was returned"))
                             /\ hist' = [hist EXCEPT ![r] = Ended(h, "persist")]
                             /\ UNCHANGED log_id
                      ELSE /\ store' = Append(store, row)
                           /\ now' = now + 1
                           /\ log_id' = [log_id EXCEPT ![r] = ReturnedId(<<row>>)]
                           /\ Goto(r, "readback")
                           /\ hist' = [hist EXCEPT ![r] = h]
  /\ UNCHANGED <<inputVars, attempt, last_exception, worker_content,
                 audit_result, risk_status>>

\* lines 179-193 with create_audit_log (database_service.py 79-114)
Persist(r) ==
  /\ pc[r] = "persist"
  /\ CanRun(r)
  /\ LET audit == to_dict(audit_result[r])
         rejection == CreateAuditLogRejection(query[r], worker_content[r],
                                              audit, risk_status[r])
         created == [hist[r] EXCEPT
                       !.creates = @ + 1,
                       !.handed = [NoRecord EXCEPT !.query = query[r],
                                                   !.response = worker_content[r],
                                                   !.audit = audit,
                                                   !.status = risk_status[r]]]
     IN  IF rejection # ""
           THEN /\ Finish(r, PersistenceFailed(rejection))
                /\ hist' = [hist EXCEPT ![r] = Ended(created, "persist")]
                /\ UNCHANGED <<log_id, store, now>>
           ELSE \E reply \in InsertReplies :
                  LET row == NewRow(store, query[r], worker_content[r], audit,
                                    risk_status[r], now + 1)
                      h == [created EXCEPT !.inserts = @ + 1,
                                           !.insert_reply = reply]
                  IN  IF reply = "raise"
                        THEN /\ Finish(r, PersistenceFailed("Database error: Failed to create audit log - StoreError"))
                             /\ hist' = [hist EXCEPT ![r] = Ended(h, "persist")]
                             /\ UNCHANGED <<log_id, store, now>>
                      ELSE IF reply = "nodata"
                        THEN /\ store' = Append(store, row)
                             /\ now' = now + 1
                             /\ Finish(r, PersistenceFailed("Database error: Failed to create audit log - Database insert succeeded but no ID was returned"))
                             /\ hist' = [hist EXCEPT ![r] = Ended(h, "persist")]
                             /\ UNCHANGED log_id
                      ELSE /\ store' = Append(store, row)
                           /\ now' = now + 1
                           /\ log_id' = [log_id EXCEPT ![r] = ReturnedId(<<row>>)]
                           /\ Goto(r, "readback")
                           /\ hist' = [hist EXCEPT ![r] = h]
  /\ UNCHANGED <<inputVars, attempt, last_exception, worker_content,
                 audit_result, risk_status>>

\* a read-back without the try of line 196: a failure of get_recent_logs
\* reaches the handler of lines 225-230
ReadBack_Fatal(r) ==
  /\ pc[r] = "readback"
  /\ CanRun(r)
  /\ \E reply \in SelectReplies :
       LET logs == IF reply = "rows" THEN RecentFirst(store, 1) ELSE << >>
           h == [hist[r] EXCEPT
                   !.selects = @ + 1,
                   !.select_limit = 1,
                   !.select_reply = IF reply = "rows" /\ Len(logs) = 0
                                      THEN "empty" ELSE reply]
       IN  /\ Finish(r, IF reply = "raise"
                          THEN HttpError(500, "Internal server error: ",
                                         "Database error")
                        ELSE Success(IF Len(logs) = 0
                                       THEN FallbackResponse(r, now)
                                       ELSE ReadBackResponse(logs[1])))
           /\ hist' = [hist EXCEPT ![r] = Ended(h, "readback")]
  /\ UNCHANGED <<inputVars, attempt, last_exception, worker_content,
                 audit_result, risk_status, log_id, store, now>>

\* lines 195-221 with get_recent_logs(limit=1) (database_service.py 130-148)
ReadBack(r) ==
  /\ pc[r] = "readback"
  /\ CanRun(r)
  /\ \E reply \in SelectReplies :
       LET limit == 1
           logs == IF reply = "rows" THEN RecentFirst(store, limit) ELSE << >>
           failed == LimitRejected(limit) \/ reply = "raise" \/ Len(logs) = 0
           h == [hist[r] EXCEPT
                   !.selects = IF LimitRejected(limit) THEN @ ELSE @ + 1,
                   !.select_limit = IF LimitRejected(limit) THEN @ ELSE limit,
                   !.select_reply = IF reply = "rows" /\ Len(logs) = 0
                                      THEN "empty" ELSE reply]
       IN  /\ Finish(r, Success(IF failed THEN FallbackResponse(r, now)
                                          ELSE ReadBackResponse(logs[1])))
           /\ hist' = [hist EXCEPT ![r] = Ended(h, "readback")]
  /\ UNCHANGED <<inputVars, attempt, last_exception, worker_content,
                 audit_result, risk_status, log_id, store, now>>

\* ------------------------------------------------------------------------
\* main.py : the validation of the environment when the module is loaded
\* ------------------------------------------------------------------------

\* os.getenv(var): None when the variable is not set
os_getenv(e, var) ==
  IF e[var].set THEN [type |-> "str", value |-> e[var].value]
  ELSE [type |-> "NoneType", value |-> << >>]

\* `not x` for a str or None
Falsy(x) ==
  x.type = "NoneType" \/ Len(x.value) = 0

\* str.strip(): the text without its leading and trailing whitespace
RECURSIVE Strip(_)
Strip(s) ==
  IF Len(s) = 0 THEN s
  ELSE IF s[1] \in Whitespace THEN Strip(SubSeq(s, 2, Len(s)))
  ELSE IF s[Len(s)] \in Whitespace THEN Strip(SubSeq(s, 1, Len(s) - 1))
  ELSE s

\* the test of line 36 without the strip() part
IsMissing_NoStrip(e, var) ==
  Falsy(os_getenv(e, var))

\* line 36: not os.getenv(var) or not os.getenv(var).strip()
IsMissing(e, var) ==
  \/ Falsy(os_getenv(e, var))
  \/ Falsy([type |-> "str", value |-> Strip(os_getenv(e, var).value)])

\* line 36: the names of required_env_vars that are missing, in its order
RECURSIVE MissingFrom(_, _)
MissingFrom(i, e) ==
  IF i > Len(required_env_vars) THEN << >>
  ELSE IF IsMissing(e, required_env_vars[i])
    THEN <<required_env_vars[i]>> \o MissingFrom(i + 1, e)
  ELSE MissingFrom(i + 1, e)

missing_vars(e) ==
  MissingFrom(1, e)

\* ', '.join(names): the pieces of the joined text
RECURSIVE JoinNames(_)
JoinNames(names) ==
  IF Len(names) = 0 THEN << >>
  ELSE IF Len(names) = 1 THEN names
  ELSE <<names[1], ", ">> \o JoinNames(SubSeq(names, 2, Len(names)))

\* line 38: the pieces of error_msg
error_msg(missing) ==
  <<"Missing required environment variables: ">> \o JoinNames(missing)

\* lines 36-40: process r loads main.py
startup(r) ==
  /\ pc[r] = "pending"
  /\ entry[r] = "startup"
  /\ pc' = [pc EXCEPT ![r] = "done"]
  /\ \E missing \in {missing_vars(env)} :
       outcome' = [outcome EXCEPT ![r] =
                     IF Len(missing) > 0
                       THEN Raised("ValueError", error_msg(missing))
                       ELSE Returned(NoRecord)]
  /\ hist' = [hist EXCEPT ![r] = Ended(@, "startup")]
  /\ UNCHANGED <<inputVars, attempt, last_exception, worker_content,
                 audit_result, risk_status, log_id, busy, store, now>>

\* two processes load main.py in one environment
InitStartup ==
  /\ entry = [r \in Runs |-> "startup"]
  /\ query = [r \in Runs |-> << >>]
  /\ response_arg = [r \in Runs |-> << >>]
  /\ risk_score_arg = [r \in Runs |-> PyNone]
  /\ evaluator_reply = [r \in Runs |-> NoReply]
  /\ db_args = [r \in Runs |-> NoDbArgs]
  /\ env \in [EnvNames -> EnvValues]
  /\ loopOf = [r \in Runs |-> 1]
  /\ Fresh

NextStartup ==
  \E r \in Runs : startup(r)

SpecStartup ==
  InitStartup /\ [][NextStartup]_vars

\* ------------------------------------------------------------------------
\* Specifications
\* ------------------------------------------------------------------------

\* a statement of a request to POST /process-agent
Step(r) ==
  \/ process_agent_start(r)
  \/ WorkerAttempt(r)
  \/ Backoff(r)
  \/ Audit(r)
  \/ Persist(r)
  \/ ReadBack(r)

Next ==
  \E r \in Runs : Step(r)

\* concurrent requests to POST /process-agent
Spec ==
  Init /\ [][Next]_vars

\* the event loop runs every task that is ready, and every outbound call
\* returns or raises
FairSpec ==
  Spec /\ \A r \in Runs : WF_vars(Step(r))

\* a statement of any invocation
StepCall(r) ==
  \/ process_worker_query_start(r)
  \/ audit_response_call(r)
  \/ Step(r)

NextCalls ==
  \E r \in Runs : StepCall(r)

\* a call of an AgentService method on its own, next to any invocation
SpecCalls ==
  InitCalls /\ [][NextCalls]_vars

NextAudit ==
  \E r \in Runs : audit_response_call(r)

\* calls of audit_response with queries of several words
SpecAudit ==
  InitAudit /\ [][NextAudit]_vars

\* calls of audit_response with one query and two responses
SpecPaired ==
  InitPaired /\ [][NextAudit]_vars

\* calls of audit_response with a query and a part of that query
SpecNested ==
  InitNested /\ [][NextAudit]_vars

\* calls of audit_response next to an evaluator model
SpecEvaluator ==
  InitEvaluator /\ [][NextAudit]_vars

\* the logs table when it holds n rows of earlier requests
StoredRows(n) ==
  IF n = 0 THEN << >>
  ELSE LET rows == StoredRows(n - 1)
       IN  Append(rows, NewRow(rows, <<"H","i">>, <<"o","k">>,
                               to_dict(AuditStart), "Safe", n))

\* two calls of DatabaseService methods on their own, with a logs table that
\* holds up to MaxStored rows
InitStore ==
  /\ entry \in [Runs -> {"create_audit_log", "get_recent_logs"}]
  /\ query \in [Runs -> {<< >>, <<" ">>, <<"H","i">>}]
  /\ response_arg \in [Runs -> Contents]
  /\ \A r \in Runs :
       entry[r] = "get_recent_logs" =>
         query[r] = << >> /\ response_arg[r] = << >>
  /\ risk_score_arg = [r \in Runs |-> PyNone]
  /\ evaluator_reply = [r \in Runs |-> NoReply]
  /\ db_args \in [Runs -> UNION {DbArgs(e) : e \in {"create_audit_log", "get_recent_logs"}}]
  /\ \A r \in Runs : db_args[r] \in DbArgs(entry[r])
  /\ env = EnvOk
  /\ loopOf = [r \in Runs |-> 1]
  /\ FreshRuns
  /\ \E n \in 0..MaxStored :
       /\ store = StoredRows(n)
       /\ now = n

NextStore ==
  \E r \in Runs : create_audit_log_call(r) \/ get_recent_logs_call(r)

\* calls of create_audit_log and get_recent_logs with any arguments
SpecStore ==
  InitStore /\ [][NextStore]_vars

NextClassify ==
  \E r \in Runs : calculate_risk_status_call(r)

\* calls of calculate_risk_status with any risk_score
SpecClassify ==
  InitClassify /\ [][NextClassify]_vars

\* ------------------------------------------------------------------------
\* Properties
\* ------------------------------------------------------------------------

\* r is a call of process_worker_query, on its own or from process_agent,
\* with a query that passes its validation
WorkerInvocation(r) ==
  entry[r] # "audit_response" /\ ~IsBlank(query[r])

C2_AtSuccess(r) ==
  LET h == hist[r]
      k == h.succeeded_at
  IN  k # 0 =>
        /\ k \in 1..3
        /\ h.calls = k
        /\ Len(h.sleeps) = k - 1
        /\ Len(h.errs) = k - 1
        /\ entry[r] = "process_worker_query" =>
             /\ pc[r] = "done"
             /\ outcome[r].kind = "return"
             /\ outcome[r].body.response = worker_content[r]
        /\ entry[r] = "process_agent" => pc[r] \notin {"worker", "sleep"}

C2_AfterSuccess(r) ==
  hist[r].succeeded_at # 0 =>
    /\ hist'[r].calls = hist[r].calls
    /\ hist'[r].sleeps = hist[r].sleeps
    /\ hist'[r].succeeded_at = hist[r].succeeded_at
    /\ worker_content'[r] = worker_content[r]

\* C2: when attempt k is the first to succeed, process_worker_query returns
\* that attempt's result at once: k worker calls and k-1 waits were made,
\* and no worker call or wait is made after the success.
C2_SuccessReturnsImmediately ==
  /\ [](\A r \in Runs : C2_AtSuccess(r))
  /\ [][\A r \in Runs : C2_AfterSuccess(r)]_vars

\* C2 witness: a call that returned the reply of its 3rd attempt
C2_Witness ==
  \E r \in Runs :
    /\ entry[r] = "process_worker_query"
    /\ pc[r] = "done"
    /\ hist[r].succeeded_at = 3
    /\ outcome[r].kind = "return"

\* C3: when all 3 attempts fail, process_worker_query fails, returns no
\* result, and the error it reports is the error of the 3rd attempt.
C3_ExhaustionReportsLastError ==
  \A r \in Runs :
    Len(hist[r].errs) = 3 =>
      /\ pc[r] = "done"
      /\ hist[r].succeeded_at = 0
      /\ outcome[r].kind = IF entry[r] = "process_worker_query"
                             THEN "raise" ELSE "http_error"
      /\ outcome[r].body = NoRecord
      /\ outcome[r].cause = hist[r].errs[3]

\* C3 witness: three failed attempts, the last with another error than the
\* first two
C3_Witness ==
  \E r \in Runs :
    /\ entry[r] = "process_worker_query"
    /\ pc[r] = "done"
    /\ Len(hist[r].errs) = 3
    /\ hist[r].errs[3] # hist[r].errs[1]
    /\ hist[r].errs[3] # hist[r].errs[2]

\* C4: while one invocation waits in its retry backoff, every other
\* invocation that has not finished can take its next step.
C4_BackoffSuspendsOnlyItsInvocation ==
  \A r, s \in Runs :
    (r # s /\ pc[r] = "sleep" /\ pc[s] # "done") => ENABLED Step(s)

\* C5: for an empty or whitespace-only query, process_worker_query and
\* audit_response raise ValueError, a request is rejected before the worker
\* step (with 400 by Validate), and no worker, auditor or store call is made.
C5_BlankQueryRejectedWithoutCalls ==
  \A r \in Runs :
    IsBlank(query[r]) =>
      /\ pc[r] \in {"pending", "done"}
      /\ hist[r].calls = 0
      /\ hist[r].sleeps = << >>
      /\ hist[r].creates = 0
      /\ hist[r].inserts = 0
      /\ hist[r].selects = 0
      /\ entry[r] # "audit_response" => hist[r].audits = 0
      /\ pc[r] = "done" =>
           /\ entry[r] = "process_worker_query" =>
                outcome[r] = Raised("ValueError: Query cannot be empty", "")
           /\ entry[r] = "audit_response" =>
                outcome[r] = Raised("ValueError", "Query cannot be empty")
           /\ entry[r] = "process_agent" =>
                /\ outcome[r].kind = "http_error"
                /\ hist[r].ended_at \in {"request_model", "validate"}
                /\ hist[r].ended_at = "validate" <=> outcome[r].code = 400
                /\ ~RequestModelRejects(query[r]) => outcome[r].code = 400

\* C5 witness: a whitespace-only request answered 400 and a direct call
\* with a blank query that raised
C5_Witness ==
  /\ entry[1] = "process_agent"
  /\ query[1] = <<" ">>
  /\ outcome[1].code = 400
  /\ entry[2] # "process_agent"
  /\ IsBlank(query[2])
  /\ outcome[2].kind = "raise"

\* C6: when the worker invocation of a request fails, the request ends in
\* an error returned to the caller and audit_response, create_audit_log and
\* the read-back are never called for it: it persists no record.
C6_WorkerFailureIsFatal ==
  \A r \in Runs :
    (entry[r] = "process_agent" /\ Len(hist[r].errs) = 3) =>
      /\ pc[r] = "done"
      /\ outcome[r].kind = "http_error"
      /\ outcome[r].code = 500
      /\ hist[r].ended_at = "worker"
      /\ hist[r].audits = 0
      /\ hist[r].creates = 0
      /\ hist[r].inserts = 0
      /\ hist[r].selects = 0
      /\ log_id[r] = 0

\* C6 witness: a request whose three worker attempts failed
C6_Witness ==
  \E r \in Runs :
    /\ entry[r] = "process_agent"
    /\ pc[r] = "done"
    /\ Len(hist[r].errs) = 3
    /\ hist[r].ended_at = "worker"

\* C7: when audit_response fails in a request, the request goes on: the
\* assessment classified and handed to create_audit_log has risk_score 5,
\* the three flags false and details naming the failure; its tier is Warning.
C7_AuditFailureFallsBack ==
  \A r \in Runs :
    (entry[r] = "process_agent" /\ hist[r].audit_failed) =>
      /\ audit_result[r].risk_score = 5
      /\ ~audit_result[r].hallucination_detected
      /\ ~audit_result[r].pii_detected
      /\ ~audit_result[r].toxic_content_detected
      /\ Len(audit_result[r].details) = 1
      /\ audit_result[r].details[1].tag = "Audit failed"
      /\ audit_result[r].details[1].error = "Response cannot be empty"
      /\ risk_status[r] = "Warning"
      /\ hist[r].ended_at \notin {"audit", "classify"}
      /\ pc[r] = "persist" \/ (pc[r] = "done" /\ hist[r].creates = 1)
      /\ hist[r].creates = 1 =>
           /\ hist[r].handed.audit = to_dict(audit_result[r])
           /\ hist[r].handed.audit.risk_score = 5
           /\ hist[r].handed.status = "Warning"

\* C7 witness: a request whose audit failed and whose fallback assessment
\* was handed to create_audit_log
C7_Witness ==
  \E r \in Runs :
    /\ entry[r] = "process_agent"
    /\ hist[r].audit_failed
    /\ hist[r].creates = 1
    /\ hist[r].handed.audit.risk_score = 5

\* C8: a request whose audit_response failed and whose store did not fault
\* ends in Success with status Warning and audit.risk_score 5.
C8_AuditFailureNeverSurfaces ==
  \A r \in Runs :
    ( /\ entry[r] = "process_agent"
      /\ hist[r].audit_failed
      /\ pc[r] = "done"
      /\ hist[r].insert_reply \notin {"raise", "nodata"} ) =>
      /\ outcome[r].kind = "success"
      /\ outcome[r].body.status = "Warning"
      /\ outcome[r].body.audit.risk_score = 5

\* C9: when create_audit_log fails in a request, the request ends in an
\* error returned to the caller; Success is never returned without an id
\* from create_audit_log, and the read-back is not attempted.
C9_PersistFailureIsFatal ==
  \A r \in Runs :
    entry[r] = "process_agent" =>
      /\ (hist[r].creates = 1 /\ hist[r].insert_reply # "row") =>
           /\ pc[r] = "done"
           /\ outcome[r].kind = "http_error"
           /\ outcome[r].code = 500
           /\ hist[r].ended_at = "persist"
           /\ hist[r].selects = 0
           /\ log_id[r] = 0
      /\ outcome[r].kind = "success" =>
           hist[r].insert_reply = "row" /\ log_id[r] # 0
      /\ hist[r].selects > 0 => hist[r].insert_reply = "row"

\* C9 witness: a request whose insert raised
C9_Witness ==
  \E r \in Runs :
    /\ entry[r] = "process_agent"
    /\ pc[r] = "done"
    /\ hist[r].creates = 1
    /\ hist[r].inserts = 1
    /\ hist[r].insert_reply = "raise"

C10_Output(r) ==
  ( /\ entry[r] = "process_agent"
    /\ hist[r].insert_reply = "row"
    /\ hist[r].select_reply \in {"raise", "empty"} ) =>
    /\ pc[r] = "done"
    /\ outcome[r].kind = "success"
    /\ log_id[r] # 0
    /\ outcome[r].body.id = log_id[r]
    /\ outcome[r].body.query = query[r]
    /\ outcome[r].body.response = worker_content[r]
    /\ outcome[r].body.audit = hist[r].handed.audit
    /\ outcome[r].body.status = hist[r].handed.status
    /\ \E i \in 1..Len(store) :
         /\ store[i].id = outcome[r].body.id
         /\ store[i].query = query[r]
         /\ store[i].response = worker_content[r]
         /\ store[i].created_at <= outcome[r].body.created_at

C10_Timestamp(r) ==
  ( /\ pc[r] = "readback"
    /\ pc'[r] = "done"
    /\ hist'[r].select_reply \in {"raise", "empty"} ) =>
    outcome'[r].body.created_at = now

\* C10: when create_audit_log returned an id and the read-back raises or
\* returns no row, the request still ends in Success; its output carries
\* the id create_audit_log returned, the request's own query, worker text,
\* assessment and tier, and the time of the return as created_at.
C10_ReadBackFailureFallsBack ==
  /\ [](\A r \in Runs : C10_Output(r))
  /\ [][\A r \in Runs : C10_Timestamp(r)]_vars

\* C10 witness: a fallback response whose created_at is later than the
\* created_at of the row it names
C10_Witness ==
  \E r \in Runs :
    /\ hist[r].select_reply \in {"raise", "empty"}
    /\ outcome[r].kind = "success"
    /\ \E i \in 1..Len(store) :
         /\ store[i].id = outcome[r].body.id
         /\ store[i].created_at < outcome[r].body.created_at

C11_Terminal(r) ==
  pc[r] = "done" =>
    LET o == outcome[r]
        at == hist[r].ended_at
        success == o.kind = "success" /\ at = "readback"
        rejected == /\ o.kind = "http_error"
                    /\ o.code \in {400, 422}
                    /\ at \in {"request_model", "validate"}
                    /\ IsBlank(query[r])
        fatal == /\ o.kind = "http_error"
                 /\ o.code = 500
                 /\ at \in {"worker", "persist"}
    IN  Cardinality({b \in {<<1, success>>, <<2, rejected>>, <<3, fatal>>} : b[2]}) = 1

C11_Stays(r) ==
  pc[r] = "done" => pc'[r] = "done" /\ outcome'[r] = outcome[r]

\* C11: every request, once invoked, eventually ends, in exactly one of:
\* Success with an audit record, rejection of an invalid query, or a fatal
\* failure of the worker step or of the persist step; it keeps that outcome
\* and never stays in an intermediate stage or in the retry loop.
C11_EveryRequestTerminates ==
  /\ \A r \in Runs : <>(pc[r] = "done")
  /\ [](\A r \in Runs : C11_Terminal(r))
  /\ [][\A r \in Runs : C11_Stays(r)]_vars

\* C11 witness: both requests ended, one in Success after a retried worker
\* call, the other in a fatal failure
C11_Witness ==
  /\ \A r \in Runs : pc[r] = "done"
  /\ \E r \in Runs : outcome[r].kind = "success" /\ Len(hist[r].sleeps) = 2
  /\ \E r \in Runs : outcome[r].code = 500

C13_InRange(r) ==
  /\ pc[r] = "done"
  /\ risk_score_arg[r].type \in {"int", "bool"}
  /\ risk_score_arg[r].n \in 0..10

\* C13: for every integer s in 0..10 calculate_risk_status(s) returns Safe
\* iff s is in 0..3, Warning iff s is in 4..6 and Flagged iff s is in
\* 7..10, and two calls with the same s return the same tier.
C13_TiersPartitionRange ==
  /\ \A r \in Runs :
       C13_InRange(r) =>
         LET s == risk_score_arg[r].n
             tier == outcome[r].body.status
         IN  /\ outcome[r].kind = "return"
             /\ tier \in {"Safe", "Warning", "Flagged"}
             /\ tier = "Safe" <=> s \in 0..3
             /\ tier = "Warning" <=> s \in 4..6
             /\ tier = "Flagged" <=> s \in 7..10
  /\ \A r, q \in Runs :
       (C13_InRange(r) /\ C13_InRange(q)
          /\ risk_score_arg[r].n = risk_score_arg[q].n)
         => outcome[r] = outcome[q]

\* C13 witness: the calls with 3 and with 4 have returned
C13_Witness ==
  /\ pc[1] = "done"
  /\ risk_score_arg[1] = PyInt(3)
  /\ outcome[1].body.status = "Safe"
  /\ pc[2] = "done"
  /\ risk_score_arg[2] = PyInt(4)
  /\ outcome[2].body.status = "Warning"

\* C14: for a risk_score below 0, above 10 or not an integer,
\* calculate_risk_status raises ValueError and returns no tier.
C14_InvalidScoreRaises ==
  \A r \in Runs :
    (/\ pc[r] = "done"
     /\ entry[r] = "calculate_risk_status"
     /\ \/ risk_score_arg[r].type \notin {"int", "bool"}
        \/ risk_score_arg[r].n < 0
        \/ risk_score_arg[r].n > 10)
      => /\ outcome[r].kind = "raise"
         /\ outcome[r].detail = "ValueError"
         /\ outcome[r].body.status = ""

\* C14 witness: the calls with 5.5 and with 11 have raised
C14_Witness ==
  /\ risk_score_arg[1] = [type |-> "float", n |-> 5, frac |-> 5]
  /\ outcome[1].kind = "raise"
  /\ risk_score_arg[2] = PyInt(11)
  /\ outcome[2].kind = "raise"

C15_Tier(s) ==
  IF s \in 0..3 THEN "Safe"
  ELSE IF s \in 4..6 THEN "Warning"
  ELSE IF s \in 7..10 THEN "Flagged"
  ELSE "none"

\* C15: every record handed to create_audit_log has the status that is the
\* tier of the risk_score inside its own audit, the query of the request
\* and the worker text of the same request; two records with the same
\* risk_score have the same status.
C15_HandedRecordIsConsistent ==
  /\ \A r \in Runs :
       hist[r].creates > 0 =>
         LET rec == hist[r].handed
         IN  /\ rec.status = C15_Tier(rec.audit.risk_score)
             /\ rec.audit.risk_score = audit_result[r].risk_score
             /\ rec.query = query[r]
             /\ rec.response = worker_content[r]
  /\ \A r, q \in Runs :
       (/\ hist[r].creates > 0
        /\ hist[q].creates > 0
        /\ hist[r].handed.audit.risk_score = hist[q].handed.audit.risk_score)
         => hist[r].handed.status = hist[q].handed.status

\* C15 witness: a record handed over as Flagged with score 8 for one query
\* and a record handed over as Safe for another
C15_Witness ==
  \E r, q \in Runs :
    /\ hist[r].creates > 0
    /\ hist[r].handed.status = "Flagged"
    /\ hist[r].handed.audit.risk_score = 8
    /\ hist[q].creates > 0
    /\ hist[q].handed.status = "Safe"
    /\ hist[q].handed.query # hist[r].handed.query

\* r is a call of audit_response on its own that returned an assessment
Evaluated(r) ==
  /\ entry[r] = "audit_response"
  /\ pc[r] = "done"
  /\ outcome[r].kind = "return"

\* some keyword of the list occurs in the text
Matched(keywords, text) ==
  \E i \in 1..Len(keywords) : Contains(keywords[i], text)

\* the categories the arguments of r match, numbered as in the claim:
\* 1 critical-harm, 2 illegal-activity, 3 dangerous-substance,
\* 4 sensitive-topic, 5 PII, 6 hate-speech, 7 self-harm, 8 sexual-content
MatchedCategories(r) ==
  LET lists == <<critical_keywords, high_risk_keywords, medium_risk_keywords,
                 moderate_risk_keywords, pii_keywords, hate_keywords,
                 self_harm_keywords, sexual_keywords>>
      q == Lower(query[r])
      response == Lower(response_arg[r])
  IN  {c \in 1..8 : \/ Matched(lists[c], q)
                    \/ c = 5 /\ Matched(lists[c], response)}

ClaimedPoints ==
  <<8, 6, 5, 3, 2, 6, 8, 4>>

RECURSIVE PointsOf(_)
PointsOf(cats) ==
  IF cats = {} THEN 0
  ELSE LET c == CHOOSE c \in cats : TRUE
       IN  ClaimedPoints[c] + PointsOf(cats \ {c})

\* C16: the risk_score audit_response returns is min(10, sum of the points
\* of the matched categories) with the points 8, 6, 5, 3, 2, 6, 8, 4; a
\* category counts once however many of its keywords occur.
C16_ScoreIsCappedSumOfCategories ==
  \A r \in Runs :
    Evaluated(r) =>
      LET sum == PointsOf(MatchedCategories(r))
      IN  outcome[r].body.audit.risk_score = IF sum > 10 THEN 10 ELSE sum

\* C16 witness: "gambling bet" (two keywords of one category) scored 3
\* next to "Skill" scored 8
C16_Witness ==
  /\ Evaluated(1)
  /\ query[1] = Join(<<6, 5>>)
  /\ outcome[1].body.audit.risk_score = 3
  /\ Evaluated(2)
  /\ outcome[2].body.audit.risk_score = 8

\* C17: in every assessment of audit_response, toxic_content_detected is
\* true iff one of critical-harm, illegal-activity, dangerous-substance,
\* hate-speech, self-harm, sexual-content matched, pii_detected is true iff
\* the PII category matched, and hallucination_detected is false.
C17_FlagsFollowCategories ==
  \A r \in Runs :
    Evaluated(r) =>
      LET a == outcome[r].body.audit
          m == MatchedCategories(r)
      IN  /\ a.toxic_content_detected <=> m \cap {1, 2, 3, 6, 7, 8} # {}
          /\ a.pii_detected <=> 5 \in m
          /\ ~a.hallucination_detected

\* C17 witness: a sensitive-topic query with a PII keyword in the response
\* only: pii_detected without toxic_content_detected
C17_Witness ==
  /\ Evaluated(1)
  /\ query[1] = Join(<<5>>)
  /\ response_arg[1] = <<"S","S","N">>
  /\ outcome[1].body.audit.pii_detected
  /\ ~outcome[1].body.audit.toxic_content_detected
  /\ Evaluated(2)
  /\ outcome[2].body.audit.toxic_content_detected

\* C18: a query that matches the critical-harm category is assessed with
\* toxic_content_detected and a risk_score of at least 8; arguments that
\* match no category are assessed with risk_score 0, the three flags false
\* and the fixed no-risk message as details.
C18_CriticalAndCleanAssessments ==
  \A r \in Runs :
    Evaluated(r) =>
      LET a == outcome[r].body.audit
      IN  /\ 1 \in MatchedCategories(r) =>
                a.toxic_content_detected /\ a.risk_score >= 8
          /\ MatchedCategories(r) = {} =>
                /\ a.risk_score = 0
                /\ ~a.toxic_content_detected
                /\ ~a.pii_detected
                /\ ~a.hallucination_detected
                /\ a.details =
                     << [tag |-> "No risk indicators detected. Query appears safe.",
                         kw |-> << >>, error |-> ""] >>

\* C18 witness: "hello" assessed as clean next to "Skill" assessed as toxic
C18_Witness ==
  /\ Evaluated(1)
  /\ query[1] = Join(<<11>>)
  /\ response_arg[1] = <<"o","k">>
  /\ outcome[1].body.audit.risk_score = 0
  /\ Evaluated(2)
  /\ query[2] = Join(<<1>>)
  /\ outcome[2].body.audit.risk_score = 8

\* the response argument of the call of audit_response that r is or makes
ResponseAudited(r) ==
  IF entry[r] = "audit_response" THEN response_arg[r] ELSE worker_content[r]

\* r has called audit_response with a non-blank query and response
AuditedValid(r) ==
  /\ entry[r] \in {"audit_response", "process_agent"}
  /\ hist[r].audits > 0
  /\ ~IsBlank(query[r])
  /\ ~IsBlank(ResponseAudited(r))

\* what that call returned
Assessment(r) ==
  IF entry[r] = "audit_response" THEN outcome[r].body.audit
  ELSE to_dict(audit_result[r])

C20_EvaluatorRetriesLikeWorker ==
  \A r \in Runs :
    AuditedValid(r) =>
      LET h == hist[r]
      IN  /\ h.evals \in 1..3
          /\ h.eval_sleeps = SubSeq(<<1, 2>>, 1, h.evals - 1)
          /\ h.audit_failed =>
               /\ h.evals = 3
               /\ entry[r] = "process_agent" =>
                    /\ audit_result[r].risk_score = 5
                    /\ risk_status[r] = "Warning"

\* the reply is a JSON object with the five keys and a score in 0..10
WellFormed(reply) ==
  /\ reply.parses
  /\ AuditKeys \subseteq reply.keys
  /\ reply.risk_score \in 0..10

\* C21: a call of audit_response with valid arguments fails when the
\* reply of the evaluator model is no JSON, lacks a required key or has a
\* risk_score outside 0..10, and returns exactly the score, flags and
\* details of a well-formed reply, fenced or not.
C21_MalformedEvaluatorReplyRejected ==
  \A r \in Runs :
    (AuditedValid(r) /\ entry[r] = "audit_response" /\ pc[r] = "done") =>
      LET reply == evaluator_reply[r]
          a == outcome[r].body.audit
      IN  IF WellFormed(reply)
            THEN /\ outcome[r].kind = "return"
                 /\ a.risk_score = reply.risk_score
                 /\ a.hallucination_detected = reply.hallucination_detected
                 /\ a.pii_detected = reply.pii_detected
                 /\ a.toxic_content_detected = reply.toxic_content_detected
                 /\ a.details = reply.details
            ELSE outcome[r].kind = "raise"

\* C22: every result a call of process_worker_query returns has a text
\* that is not blank: an attempt whose reply has empty or whitespace-only
\* content is not returned as a success.
C22_WorkerResultHasText ==
  \A r \in Runs :
    hist[r].succeeded_at # 0 =>
      /\ ~IsBlank(worker_content[r])
      /\ (entry[r] = "process_worker_query" /\ pc[r] = "done") =>
           ~IsBlank(outcome[r].body.response)

PyBool(b) ==
  [type |-> "bool", n |-> IF b THEN 1 ELSE 0, frac |-> 0]

PyList(l) ==
  [type |-> "list", n |-> Len(l), frac |-> 0]

\* the Python values of an audit dict: risk_score is the int that
\* audit_response counts, the three flags are its booleans, details its list
PyAudit(audit) ==
  [k \in DOMAIN audit |->
     IF k = "risk_score" THEN PyInt(audit[k])
     ELSE IF k = "details" THEN PyList(audit[k])
     ELSE PyBool(audit[k])]

\* a serializer that tests int before bool: True is written as 1
json_dumps_IntFirst(v) ==
  IF v.type \in {"int", "bool"}
    THEN [token |-> "number", digits |-> v.n, fraction |-> 0, point |-> FALSE]
  ELSE IF v.type = "float"
    THEN [token |-> "number", digits |-> v.n, fraction |-> v.frac, point |-> TRUE]
  ELSE IF v.type = "NoneType"
    THEN [token |-> "null", digits |-> 0, fraction |-> 0, point |-> FALSE]
  ELSE IF v.type = "list"
    THEN [token |-> "array", digits |-> v.n, fraction |-> 0, point |-> FALSE]
  ELSE [token |-> "string", digits |-> v.n, fraction |-> 0, point |-> FALSE]

\* json.dumps of one value: the JSON token written for it; a bool is written
\* as true or false, an int without a decimal point, a float with one
json_dumps(v) ==
  IF v.type = "bool"
    THEN [token |-> IF v.n = 1 THEN "true" ELSE "false", digits |-> 0,
          fraction |-> 0, point |-> FALSE]
  ELSE IF v.type = "int"
    THEN [token |-> "number", digits |-> v.n, fraction |-> 0, point |-> FALSE]
  ELSE IF v.type = "float"
    THEN [token |-> "number", digits |-> v.n, fraction |-> v.frac, point |-> TRUE]
  ELSE IF v.type = "NoneType"
    THEN [token |-> "null", digits |-> 0, fraction |-> 0, point |-> FALSE]
  ELSE IF v.type = "list"
    THEN [token |-> "array", digits |-> v.n, fraction |-> 0, point |-> FALSE]
  ELSE [token |-> "string", digits |-> v.n, fraction |-> 0, point |-> FALSE]

\* json.loads of one token: the Python value read from it
json_loads(t) ==
  IF t.token \in {"true", "false"} THEN PyBool(t.token = "true")
  ELSE IF t.token = "number"
    THEN IF t.point
           THEN [type |-> "float", n |-> t.digits, frac |-> t.fraction]
           ELSE PyInt(t.digits)
  ELSE IF t.token = "null" THEN PyNone
  ELSE [type |-> IF t.token = "array" THEN "list" ELSE "str",
        n |-> t.digits, frac |-> 0]

\* the audit dict read back from its JSON text
RoundTrip(d) ==
  [k \in DOMAIN d |-> json_loads(json_dumps(d[k]))]

\* the four required keys are there, risk_score is an int in 0..10 and the
\* three flags are bools
AuditShape(d) ==
  /\ {"risk_score", "hallucination_detected", "pii_detected",
      "toxic_content_detected"} \subseteq DOMAIN d
  /\ d.risk_score.type = "int"
  /\ d.risk_score.n \in 0..10
  /\ \A k \in {"hallucination_detected", "pii_detected",
               "toxic_content_detected"} : d[k].type = "bool"

CreatedId(r) ==
  IF entry[r] = "create_audit_log"
    THEN IF pc[r] = "done" /\ outcome[r].kind = "return"
           THEN outcome[r].body.id ELSE 0
    ELSE log_id[r]

\* C24: the ids that create_audit_log returned for the records created so
\* far, by requests that run concurrently too, are pairwise distinct, and
\* each is the id of one stored record.
C24_CreatedIdsDistinct ==
  /\ \A r1, r2 \in Runs :
       (r1 # r2 /\ CreatedId(r1) # 0 /\ CreatedId(r2) # 0) =>
         CreatedId(r1) # CreatedId(r2)
  /\ \A r \in Runs :
       CreatedId(r) # 0 =>
         \E i \in 1..Len(store) : store[i].id = CreatedId(r)
  /\ \A i, j \in 1..Len(store) : i # j => store[i].id # store[j].id

\* two requests on different event loops have both created a record
C24_Witness ==
  /\ \A r \in Runs : CreatedId(r) # 0
  /\ \E r1, r2 \in Runs : loopOf[r1] # loopOf[r2]
  /\ Len(store) >= 2

\* request r has been answered with an error
Failed(r) ==
  /\ entry[r] = "process_agent"
  /\ pc[r] = "done"
  /\ outcome[r].kind = "http_error"

\* C25: a request that process_agent answers with an error is answered 400
\* exactly when its query is blank and 500 exactly when the failure came
\* from the worker step or from create_audit_log; process_agent returns no
\* other error code, and a failed request is answered with a client error
\* (4xx) exactly when its query is empty or whitespace-only.
C25_ErrorCodeFollowsFailedStep ==
  \A r \in Runs :
    Failed(r) =>
      /\ IsBlank(query[r]) <=> outcome[r].code \in 400..499
      /\ hist[r].ended_at # "request_model" =>
           /\ outcome[r].code \in {400, 500}
           /\ outcome[r].code = 400 <=> IsBlank(query[r])
      /\ outcome[r].code = 500 <=> hist[r].ended_at \in {"worker", "persist"}
      /\ outcome[r].code >= 500 => outcome[r].code = 500

\* one request answered 400 for a whitespace-only query while the other is
\* answered 500 after its insert raised
C25_Witness ==
  /\ Failed(1) /\ query[1] = <<" ">> /\ outcome[1].code = 400
  /\ Failed(2) /\ outcome[2].code = 500 /\ hist[2].ended_at = "persist"
  /\ hist[2].insert_reply = "raise"

\* the arguments of the create_audit_log call of run r have one of the
\* defects create_audit_log rejects
Defective(r) ==
  \/ IsBlank(query[r])
  \/ IsBlank(response_arg[r])
  \/ DOMAIN db_args[r].audit = {}
  \/ db_args[r].status \notin {"Safe", "Warning", "Flagged"}
  \/ \E k \in {"risk_score", "hallucination_detected", "pii_detected",
               "toxic_content_detected"} : k \notin DOMAIN db_args[r].audit

\* C26: a call of create_audit_log whose query or response is blank, whose
\* audit is empty or lacks one of the four required fields, or whose status
\* is not Safe, Warning or Flagged raises ValueError, issues no insert and
\* leaves the store as it was.
C26_DefectiveCallRejectedBeforeInsert ==
  /\ [](\A r \in Runs :
          (entry[r] = "create_audit_log" /\ Defective(r) /\ pc[r] = "done") =>
            /\ outcome[r].kind = "raise"
            /\ outcome[r].detail = "ValueError"
            /\ hist[r].inserts = 0)
  /\ [][\A r \in Runs :
          (entry[r] = "create_audit_log" /\ Defective(r) /\ pc[r] # pc'[r]) =>
            store' = store]_vars

\* a call with a whitespace-only query and one with an audit that lacks
\* fields have both been rejected
C26_Witness ==
  /\ entry[1] = "create_audit_log" /\ pc[1] = "done"
  /\ query[1] = <<" ">> /\ response_arg[1] = <<"o","k">>
  /\ db_args[1].status = "Safe"
  /\ DOMAIN db_args[1].audit = {"risk_score", "hallucination_detected",
                                "pii_detected", "toxic_content_detected"}
  /\ outcome[1].kind = "raise"
  /\ entry[2] = "create_audit_log" /\ pc[2] = "done"
  /\ query[2] = <<"H","i">> /\ response_arg[2] = <<"o","k">>
  /\ DOMAIN db_args[2].audit = {"risk_score", "hallucination_detected"}
  /\ outcome[2].kind = "raise"
  /\ Len(store) = 0

\* the list logs holds the n most recent rows of rows, most recent first
MostRecentFirst(logs, rows, n) ==
  /\ Len(logs) = Min(n, Len(rows))
  /\ \A i \in 1..Len(logs) : \E k \in 1..Len(rows) : rows[k] = logs[i]
  /\ \A i, j \in 1..Len(logs) :
       i < j => logs[i].created_at > logs[j].created_at
  /\ \A k \in 1..Len(rows) :
       \/ \E i \in 1..Len(logs) : logs[i] = rows[k]
       \/ \A i \in 1..Len(logs) : logs[i].created_at > rows[k].created_at

\* C27: a call of get_recent_logs with limit <= 0 raises ValueError and
\* issues no select; with a positive limit it issues one select with that
\* limit and returns what the select answers: the rows of the store, most
\* recent first and at most limit of them, and the empty list (no error)
\* when the store has no rows.
C27_RecentLogs ==
  [][\A r \in Runs :
       (entry[r] = "get_recent_logs" /\ pc[r] # pc'[r]) =>
         LET limit == db_args[r].limit
             h == hist'[r]
         IN  IF limit <= 0
               THEN /\ outcome'[r].kind = "raise"
                    /\ outcome'[r].detail = "ValueError"
                    /\ h.selects = 0
               ELSE /\ h.selects = 1
                    /\ h.select_limit = limit
                    /\ h.select_reply # "raise" => outcome'[r].kind = "return"
                    /\ h.select_reply = "rows" =>
                         /\ Len(store) > 0
                         /\ MostRecentFirst(h.logs, store, limit)
                    /\ h.select_reply = "empty" => h.logs = << >>
                    /\ Len(store) = 0 =>
                         h.select_reply \in {"empty", "raise"}]_vars

\* one call has returned the two rows of the table, most recent first, and
\* another has been rejected for limit 0
C27_Witness ==
  /\ \E r \in Runs :
       /\ entry[r] = "get_recent_logs" /\ pc[r] = "done"
       /\ db_args[r].limit = 2
       /\ outcome[r].kind = "return"
       /\ Len(hist[r].logs) = 2
       /\ hist[r].logs[1].id > hist[r].logs[2].id
  /\ \E r \in Runs :
       /\ entry[r] = "get_recent_logs" /\ pc[r] = "done"
       /\ db_args[r].limit = 0
       /\ outcome[r].kind = "raise"
       /\ hist[r].selects = 0
  /\ Len(store) = 2

\* a call on a table without rows has returned the empty list
C27_WitnessEmpty ==
  \E r \in Runs :
    /\ entry[r] = "get_recent_logs" /\ pc[r] = "done"
    /\ Len(store) = 0
    /\ hist[r].selects = 1
    /\ outcome[r].kind = "return"
    /\ hist[r].logs = << >>

\* run r executes a statement of process_worker_query in this step
WorkerStatement(r) ==
  /\ WorkerInvocation(r)
  /\ pc[r] \in {"pending", "worker", "sleep"}
  /\ pc'[r] # pc[r]

\* C28: an invocation of process_worker_query starts with attempt 1 and no
\* call made, whatever the invocations before it or beside it did; its
\* attempt count follows its own calls only, so that it fails for want of
\* attempts only after 3 failed calls of its own; a statement of it changes
\* no local of another invocation and nothing in the store, and once it has
\* ended it holds nothing.
C28_NoStateAcrossInvocations ==
  /\ [][\A r \in Runs :
          (WorkerStatement(r) /\ pc[r] = "pending" /\ pc'[r] = "worker") =>
            /\ attempt'[r] = 1
            /\ hist'[r].calls = 0
            /\ last_exception'[r] = ""]_vars
  /\ [][\A r, s \in Runs :
          (WorkerStatement(r) /\ s # r) =>
            /\ attempt'[s] = attempt[s]
            /\ last_exception'[s] = last_exception[s]
            /\ worker_content'[s] = worker_content[s]
            /\ pc'[s] = pc[s]
            /\ outcome'[s] = outcome[s]
            /\ hist'[s] = hist[s]
            /\ store' = store]_vars
  /\ [](\A r \in Runs :
          WorkerInvocation(r) =>
            /\ pc[r] = "worker" =>
                 attempt[r] = hist[r].calls + 1 /\ attempt[r] <= 3
            /\ pc[r] = "sleep" =>
                 attempt[r] = hist[r].calls /\ attempt[r] < 3
            /\ (pc[r] = "done" /\ hist[r].ended_at = "worker"
                /\ hist[r].succeeded_at = 0) => Len(hist[r].errs) = 3
            /\ pc[r] = "done" => busy[loopOf[r]] # r)

\* two invocations on one event loop, so one after the other: one failed
\* after 3 attempts and the other made 3 attempts of its own
C28_Witness ==
  /\ loopOf[1] = loopOf[2]
  /\ \A r \in Runs : entry[r] = "process_worker_query" /\ pc[r] = "done"
  /\ \E r, s \in Runs :
       /\ r # s
       /\ Len(hist[r].errs) = 3
       /\ outcome[r].kind = "raise"
       /\ hist[s].succeeded_at = 3
       /\ outcome[s].kind = "return"

RECURSIVE SumOf(_)
SumOf(delays) ==
  IF Len(delays) = 0 THEN 0
  ELSE delays[1] + SumOf(SubSeq(delays, 2, Len(delays)))

\* the time request r has spent in time.sleep between attempts, in the
\* worker stage and in the audit stage
TotalBackoff(r) ==
  SumOf(hist[r].sleeps) + SumOf(hist[r].eval_sleeps)

\* C29: the backoff waits of one request, added up over its worker stage
\* and its audit stage, never exceed 6 time units.
C29_TotalBackoffAtMostSix ==
  \A r \in Runs :
    entry[r] = "process_agent" => TotalBackoff(r) <= 6

\* a request that went through every stage after the waits of 1 and 2 of
\* two failed worker attempts
C29_Witness ==
  \E r \in Runs :
    /\ entry[r] = "process_agent"
    /\ pc[r] = "done"
    /\ outcome[r].kind = "success"
    /\ hist[r].sleeps = <<1, 2>>
    /\ hist[r].audits = 1
    /\ TotalBackoff(r) = 3

\* variable v of the environment is unset, empty or whitespace-only
UnsetOrBlank(v) ==
  ~env[v].set \/ \A i \in 1..Len(env[v].value) : env[v].value[i] \in Whitespace

\* the names in the pieces of an error message
NamedIn(msg) ==
  {msg[i] : i \in 1..Len(msg)} \cap EnvNames

\* C30: the validation at startup raises ValueError exactly when one of
\* GROQ_API_KEY, GEMINI_API_KEY, SUPABASE_URL, SUPABASE_SERVICE_ROLE_KEY and
\* FRONTEND_URL is unset, empty or whitespace-only; the message then names
\* every such variable and no other; it passes when all five are set to
\* values that are not blank.
C30_StartupValidation ==
  \A r \in Runs :
    (entry[r] = "startup" /\ pc[r] = "done") =>
      LET bad == {v \in {"GROQ_API_KEY", "GEMINI_API_KEY", "SUPABASE_URL",
                         "SUPABASE_SERVICE_ROLE_KEY", "FRONTEND_URL"} :
                    UnsetOrBlank(v)}
      IN  IF bad = {}
            THEN outcome[r].kind = "return"
            ELSE /\ outcome[r].kind = "raise"
                 /\ outcome[r].detail = "ValueError"
                 /\ outcome[r].cause[1] = "Missing required environment variables: "
                 /\ NamedIn(outcome[r].cause) = bad

\* a startup that failed naming exactly the unset GROQ_API_KEY, the empty
\* SUPABASE_URL and the whitespace-only FRONTEND_URL
C30_Witness ==
  \E r \in Runs :
    /\ entry[r] = "startup" /\ pc[r] = "done"
    /\ ~env["GROQ_API_KEY"].set
    /\ env["SUPABASE_URL"] = [set |-> TRUE, value |-> << >>]
    /\ env["FRONTEND_URL"] = [set |-> TRUE, value |-> <<" ">>]
    /\ env["GEMINI_API_KEY"].value = <<" ", "k">>
    /\ env["SUPABASE_SERVICE_ROLE_KEY"].value = <<"k">>
    /\ outcome[r].kind = "raise"
    /\ outcome[r].cause = <<"Missing required environment variables: ",
                            "GROQ_API_KEY", ", ", "SUPABASE_URL", ", ",
                            "FRONTEND_URL">>

\* a startup that passed with all five variables set
C30_WitnessPass ==
  \E r \in Runs :
    /\ entry[r] = "startup" /\ pc[r] = "done"
    /\ outcome[r].kind = "return"
    /\ \A v \in EnvNames : env[v].set

\* C31: every attempt of process_worker_query sends one request, with the
\* single message {role: user, content: the query as given}, model
\* llama3-8b-8192, temperature 0.7 and max_tokens 1024, and every retry
\* sends the same request again.
C31_WorkerRequest ==
  \A r \in Runs :
    /\ Len(hist[r].requests) = hist[r].calls
    /\ \A i \in 1..Len(hist[r].requests) :
         LET req == hist[r].requests[i]
         IN  /\ Len(req.messages) = 1
             /\ req.messages[1].role = "user"
             /\ req.messages[1].content = query[r]
             /\ req.model = "llama3-8b-8192"
             /\ req.temperature = [type |-> "float", n |-> 0, frac |-> 7]
             /\ req.max_tokens = 1024
             /\ req = hist[r].requests[1]

\* C32: with requests that run concurrently on one store, every Success
\* carries the id create_audit_log returned to that request and the query,
\* response, audit and status of that request, never those of another one.
C32_SuccessCarriesOwnRecord ==
  \A r \in Runs :
    (entry[r] = "process_agent" /\ pc[r] = "done"
     /\ outcome[r].kind = "success") =>
      /\ outcome[r].body.id = log_id[r]
      /\ outcome[r].body.query = query[r]
      /\ outcome[r].body.response = worker_content[r]
      /\ outcome[r].body.audit = to_dict(audit_result[r])
      /\ outcome[r].body.status = risk_status[r]

\* C33: a request that ended in an error (400 or 500) has left no row in
\* the store, also when create_audit_log failed because the reply of the
\* insert carried no row data: every row of the store, which was empty at
\* the start, is the one row of a request that inserted and has not failed.
C33_FailedRunLeavesNoRecord ==
  Len(store) <= Cardinality({r \in Runs : /\ entry[r] = "process_agent"
                                          /\ hist[r].inserts = 1
                                          /\ ~Failed(r)})

\* what request r has done so far is in the order of the stages
C34_Order(r) ==
  LET h == hist[r]
  IN  /\ h.calls > 0 => ~IsBlank(query[r])
      /\ h.audits <= 1
      /\ h.audits = 1 => h.succeeded_at # 0
      /\ h.creates <= 1
      /\ h.inserts <= h.creates
      /\ h.creates = 1 =>
           /\ h.succeeded_at # 0
           /\ h.audits = 1
           /\ risk_status[r] \in {"Safe", "Warning", "Flagged"}
           /\ h.handed.status = risk_status[r]
      /\ h.selects <= 1
      /\ h.selects = 1 =>
           /\ h.creates = 1
           /\ h.insert_reply = "row"
           /\ log_id[r] # 0

\* no stage is gone back to: no worker call once audit_response was called,
\* no audit or classification once create_audit_log was called, and no
\* create_audit_log once the read-back was made
C34_NoWayBack(r) ==
  /\ hist[r].audits = 1 =>
       hist'[r].calls = hist[r].calls /\ hist'[r].sleeps = hist[r].sleeps
  /\ hist[r].creates = 1 =>
       /\ hist'[r].audits = hist[r].audits
       /\ risk_status'[r] = risk_status[r]
       /\ hist'[r].creates = 1
       /\ hist'[r].inserts = hist[r].inserts
  /\ hist[r].selects = 1 => hist'[r] = hist[r]

\* C34: the stages of a request happen in the order validate, worker
\* call(s), evaluate, classify, insert, read-back; create_audit_log is
\* called only after a worker success and after the tier was computed and
\* at most once (never retried); the read-back is made at most once and only
\* after create_audit_log returned an id.
C34_StagesInOrder ==
  /\ [](\A r \in Runs : entry[r] = "process_agent" => C34_Order(r))
  /\ [][\A r \in Runs : entry[r] = "process_agent" => C34_NoWayBack(r)]_vars

\* a request that went through all stages after a failed worker attempt,
\* and one whose insert raised and was not made again
C34_Witness ==
  /\ \E r \in Runs :
       /\ entry[r] = "process_agent" /\ pc[r] = "done"
       /\ hist[r].calls = 2 /\ hist[r].audits = 1
       /\ hist[r].inserts = 1 /\ hist[r].selects = 1
  /\ \E r \in Runs :
       /\ entry[r] = "process_agent" /\ pc[r] = "done"
       /\ hist[r].insert_reply = "raise"
       /\ hist[r].inserts = 1 /\ hist[r].selects = 0

\* C35: an assessment of audit_response with toxic_content_detected set has
\* a risk_score of at least 4, so calculate_risk_status never classifies it
\* as Safe.
C35_ToxicIsNeverSafe ==
  \A r \in Runs :
    Evaluated(r) =>
      LET a == outcome[r].body.audit
      IN  a.toxic_content_detected =>
            /\ a.risk_score >= 4
            /\ calculate_risk_status(PyInt(a.risk_score)) \in {"Warning", "Flagged"}

\* "porn", the category with the fewest points that sets the flag, is
\* assessed with risk_score 4 and classified Warning
C35_Witness ==
  /\ Evaluated(1)
  /\ query[1] = Join(<<10>>)
  /\ response_arg[1] = <<"o","k">>
  /\ outcome[1].body.audit.toxic_content_detected
  /\ outcome[1].body.audit.risk_score = 4
  /\ calculate_risk_status(PyInt(4)) = "Warning"

\* C36: for one query and any two non-blank responses, the two assessments
\* of audit_response have the same toxic_content_detected and the same
\* hallucination_detected, and their risk_scores differ by at most 2, the
\* points of the PII category.
C36_ResponseCountsForPiiOnly ==
  \A r, s \in Runs :
    ( /\ Evaluated(r) /\ Evaluated(s)
      /\ query[r] = query[s]
      /\ ~IsBlank(response_arg[r]) /\ ~IsBlank(response_arg[s]) ) =>
      LET a == outcome[r].body.audit
          b == outcome[s].body.audit
      IN  /\ a.toxic_content_detected = b.toxic_content_detected
          /\ a.hallucination_detected = b.hallucination_detected
          /\ a.risk_score - b.risk_score \in (0 - 2)..2

\* "hello" with a response that holds "SSN" is assessed 2 with the PII flag,
\* and with a response that holds "kill" it is assessed 0
C36_Witness ==
  /\ Evaluated(1) /\ Evaluated(2)
  /\ query[1] = Join(<<11>>) /\ query[2] = query[1]
  /\ response_arg[1] = <<"S","S","N">>
  /\ response_arg[2] = <<"I"," ","k","i","l","l">>
  /\ outcome[1].body.audit.risk_score = 2
  /\ outcome[1].body.audit.pii_detected
  /\ outcome[2].body.audit.risk_score = 0
  /\ ~outcome[2].body.audit.pii_detected

\* the tiers in rising order
TierRank(status) ==
  IF status = "Safe" THEN 1 ELSE IF status = "Warning" THEN 2 ELSE 3

\* the tier of the assessment audit_response returned to r
TierOf(r) ==
  calculate_risk_status(PyInt(outcome[r].body.audit.risk_score))

\* C37: when the categories matched by the arguments of one call of
\* audit_response are among those matched by the arguments of another, the
\* risk_score of the first is at most that of the second and its tier is
\* not higher; arguments that match critical-harm or self-harm are
\* classified Flagged whatever else they match.
C37_ScoreMonotoneInCategories ==
  /\ \A r, s \in Runs :
       ( /\ Evaluated(r) /\ Evaluated(s)
         /\ MatchedCategories(r) \subseteq MatchedCategories(s) ) =>
         /\ outcome[r].body.audit.risk_score <= outcome[s].body.audit.risk_score
         /\ TierRank(TierOf(r)) <= TierRank(TierOf(s))
  /\ \A r \in Runs :
       (Evaluated(r) /\ MatchedCategories(r) \cap {1, 7} # {}) =>
         TierOf(r) = "Flagged"

\* "gambling overdose" is assessed 10 and Flagged, and its part "gambling"
\* is assessed 3 and Safe
C37_Witness ==
  /\ Evaluated(1) /\ Evaluated(2)
  /\ query[1] = Join(<<6, 9>>)
  /\ query[2] = Join(<<6>>)
  /\ MatchedCategories(1) = {4, 7}
  /\ MatchedCategories(2) = {4}
  /\ outcome[1].body.audit.risk_score = 10
  /\ outcome[2].body.audit.risk_score = 3
  /\ TierOf(1) = "Flagged" /\ TierOf(2) = "Safe"

\* the categories the query q and the worker text match, numbered as in
\* MatchedCategories
CategoriesOf(q, text) ==
  LET lists == <<critical_keywords, high_risk_keywords, medium_risk_keywords,
                 moderate_risk_keywords, pii_keywords, hate_keywords,
                 self_harm_keywords, sexual_keywords>>
      ql == Lower(q)
      tl == Lower(text)
  IN  {c \in 1..8 : \/ Matched(lists[c], ql)
                    \/ c = 5 /\ Matched(lists[c], tl)}

\* C38: in a request whose query passed validation and whose worker call
\* succeeded, audit_response fails, and the fallback assessment with
\* risk_score 5 is used, only if the worker text is empty or
\* whitespace-only; for a worker text that is not blank the assessment
\* handed to create_audit_log, and stored, is the rule-based one: the capped
\* points of the matched categories and their flags.
C38_FallbackOnlyForBlankWorkerText ==
  \A r \in Runs :
    ( /\ entry[r] = "process_agent"
      /\ ~IsBlank(query[r])
      /\ hist[r].succeeded_at # 0
      /\ hist[r].audits = 1 ) =>
      /\ hist[r].audit_failed => IsBlank(worker_content[r])
      /\ ~IsBlank(worker_content[r]) =>
           LET m == CategoriesOf(query[r], worker_content[r])
               a == to_dict(audit_result[r])
           IN  /\ ~hist[r].audit_failed
               /\ a.risk_score = Min(PointsOf(m), 10)
               /\ a.toxic_content_detected <=> m \cap {1, 2, 3, 6, 7, 8} # {}
               /\ a.pii_detected <=> 5 \in m
               /\ \A i \in 1..Len(a.details) : a.details[i].tag # "Audit failed"
               /\ hist[r].creates = 1 => hist[r].handed.audit = a
               /\ log_id[r] # 0 =>
                    \E i \in 1..Len(store) :
                      store[i].id = log_id[r] /\ store[i].audit = a

\* one request stored the rule-based assessment 8 of "Kill" with a worker
\* text that is not blank, and one used the fallback for a blank worker text
C38_Witness ==
  /\ \E r \in Runs :
       /\ entry[r] = "process_agent"
       /\ ~IsBlank(worker_content[r])
       /\ log_id[r] # 0
       /\ hist[r].handed.audit.risk_score = 8
  /\ \E r \in Runs :
       /\ entry[r] = "process_agent"
       /\ hist[r].succeeded_at # 0
       /\ IsBlank(worker_content[r])
       /\ hist[r].audit_failed
       /\ audit_result[r].risk_score = 5

=============================================================================
